---- MODULE Spec2Model ----
(***************************************************************************)
(* Model of the Facial-Recognition web application (App v2, storageService *)
(* v2, conversationService).                                               *)
(*                                                                         *)
(* Spec      the App component: recognition polling loop, mode switches,   *)
(*           registration, voice commands, greeting overlay, teardown.     *)
(* LogSpec   the persisted log list and the App's in-memory copy.          *)
(* HistSpec  the per-user capped histories (conversation, emotions).       *)
(* ChatSpec  processMessage and the online/offline fallback chain.         *)
(*           with localLLMService.generateTextLocal (Ollama, GPT-2).       *)
(* VisionSpec the image services: claudeService's Claude-then-Ollama chain *)
(*           and the gemini / emotion / security calls.                    *)
(* ProbeSpec visionPipeline.isServerAvailable and its 10 s cache.          *)
(* VoiceSpec the push-to-talk assistant: parseCommand and the dispatch of  *)
(*           its commands to the App.                                      *)
(* FairSpec  Spec with the continuations and timeouts that the event loop  *)
(*           is bound to run.                                              *)
(* RegSpec   registration alone, with names differing in case and space.   *)
(* CamSpec   the Camera component's stream effect and its cleanup.         *)
(* PipeSpec  visionPipeline.startContinuousAnalysis / stopAnalysis.        *)
(* FrameSpec visionPipeline.analyzeFrame and its parallel sub-analyses.    *)
(* SessSpec  one push-to-talk session of VoiceAssistant; FairSessSpec adds *)
(*           that a pending promise of the session settles.                *)
(* WakeSpec  the wake-word VoiceAssistant: toggle and handleWakeWord.      *)
(* PanelSpec OfflineModePanel: the toggle, model loading, Ollama retry.    *)
(* SettingsSpec the settings modal over the loop and stored preferences.   *)
(*                                                                         *)
(* A React state setter followed by the re-render and the effect that      *)
(* depends on the state is one step: the effect of lines 647-655 runs with *)
(* the commit of the appState change.  State setters of an unmounted       *)
(* component are no-ops; refs, timers and storage stay live.               *)
(* App handlers also call addLog; the log lists are the state of LogSpec   *)
(* and are left alone by the actions of Spec.                              *)
(***************************************************************************)
EXTENDS Integers, Sequences, FiniteSets, TLC

\* ---------------------------------------------------------------- bounds
MaxUsers == 1
MaxInteractions == 2
MaxDismissTimers == 2
MaxRegInFlight == 1
MaxLogSeq == 102
MaxOver == 2
MaxChatSaves == 4
MaxFrames == 2
MaxTicks == 12
MaxProbes == 3
MaxRegUsers == 2
MaxEffects == 3
MaxRuns == 2
MaxPipeInFlight == 2
MaxRecs == 4
MaxRetries == 2

\* ------------------------------------------------------------- constants
RECOGNITION == "RECOGNITION"
REGISTRATION == "REGISTRATION"
IDLE == "IDLE"
AppStates == {RECOGNITION, REGISTRATION, IDLE}

\* names typed into the registration form under Spec ("" is the empty field)
AppRegNames == {"bob"}

VARIABLES
  appState,            \* useState<AppState>
  mounted,             \* the App component is mounted
  recognitionTimerRef, \* useRef: id of the interval, 0 = null
  armedTimers,         \* intervals the browser will still fire
  processingRef,       \* useRef(false): re-entrancy flag
  pollReqs,            \* interval callbacks suspended at an await
  voicePc,             \* VoiceAssistant photo capture: "idle" | "recognize"
  matchedUser,         \* useState<User|null>: id, 0 = null
  recognitionStatus,   \* "SCANNING" | "MATCHED"
  showGreetingOverlay, \* useState(false)
  dismissTimers,       \* pending 4000 ms overlay timeouts, oldest first;
                       \* TRUE marks the timeout of the latest shown overlay
  storedUsers,         \* localStorage skyy_users: array of User
  prefs,               \* localStorage skyy_preferences_<id>
  emotionHistory,      \* localStorage skyy_emotions_<id>
  emotionSaved,        \* number of saveEmotion calls per user (history)
  regStep,             \* 'NAME' | 'CAPTURE' | 'PROCESSING' | 'COMPLETE' | 'ERROR'
  regName,             \* useState('')
  regReqs,             \* captureAndRegister calls suspended at the await
  switchTimers,        \* pending 3000 ms timeouts of captureAndRegister
  matchStopped,        \* history: a polling match stopped the loop and
                       \* recognition mode was not entered since
  storedLogs,          \* localStorage skyy_logs: array of LogEntry (ids)
  logs,                \* App useState<LogEntry[]>
  logSeq,              \* number of log entries created so far
  logMounted,          \* LogSpec: an App instance is mounted
  conversations,       \* localStorage skyy_conversations_<id>
  msgSaved,            \* number of saveMessage calls per user (history)
  offlineMode,         \* localStorage skyy_offline_mode === 'true'
  chatPc,              \* processMessage: "idle" | "online" | "offline" | "done"
  chatUser,            \* userId argument of the running processMessage
  chatForce,           \* forceOffline argument of the running call
  chatModeAtCall,      \* history: isOfflineMode() when the call started
  chatOfflineEnabled,  \* generateResponse local: offlineModeEnabled
  chatCalls,           \* providers generateResponse called, in order
  chatOnlineThrew,     \* generateResponseOnline rejected in this call
  chatResult,          \* {text, usedOffline} returned by generateResponse
  chatAppended,        \* history: roles the running processMessage saved
  ollamaReachable,     \* environment: the Ollama server answers
  ollamaAvailable,     \* securityService module variable: "null" | "true" | "false"
  textGenerationModel, \* the GPT-2 pipeline is loaded
  llmPc,               \* generateTextLocal: "idle" | "probe" | "ollama" | "gpt2" | "done"
  llmCalls,            \* what the running generateTextLocal used, in order
  llmStatus,           \* history: what checkOllamaStatus returned in this call
  llmOllamaFailed,     \* history: ollamaService.generateText rejected in this call
  llmGpt2Failed,       \* history: the GPT-2 load or generation failed in this call
  llmReachableAtGpt2,  \* history: ollamaReachable when GPT-2 was turned to
  llmFailedNoReset,    \* history: Ollama failed and resetOllamaStatus was not
                       \* called since
  llmResult,           \* what generateTextLocal resolved with
  visPc,               \* claudeService call: "idle" | "claude" | "check" | "ollama"
  visOp,               \* "recognizeUser" | "analyzeRegistrationImage"
  visCalls,            \* endpoints the running call contacted, in order
  visClaudeFailed,     \* history: the Claude request of this call failed
  visOllamaUp,         \* history: checkConnection of this call returned true
  visOllamaFailed,     \* history: the Ollama image request of this call failed
  visResult,           \* value the call resolved with
  svcPc,               \* gemini / emotion / security call: "idle" | "await"
  svcOp,               \* which function is running
  svcFrames,           \* checkLiveness: number of frames given
  svcContacted,        \* history: the provider was contacted by this call
  svcFailed,           \* history: the call failed (provider or frame check)
  svcResult,           \* how the call ended and what it returned
  clock,               \* Date.now() in ms
  serverUp,            \* environment: the vision server runs
  serverAvailable,     \* visionPipeline module variable
  lastServerCheck,     \* visionPipeline module variable
  probeCalls,          \* isServerAvailable calls: [pc, now, issuedAt]
  probeRet,            \* per caller: what its last call returned
  healthRequests,      \* history: number of /health requests issued
  storedProbe,         \* history: [any, issuedAt, outcome] of the request
                       \* whose result is in serverAvailable
  lastTranscript,      \* VoiceAssistant useState(''): characters heard
  lastCommand,         \* history: command parseCommand gave for it
  camMounted,          \* the Camera component is mounted
  camActive,           \* Camera prop isActive
  camCycles,           \* runs of the initialization effect, oldest first:
                       \* [pc, isMounted, localStream] of each closure
  camLive,             \* effect runs whose media stream has live tracks
  streamRef,           \* useRef: run whose stream is in streamRef, 0 = null
  isRunning,           \* visionPipeline module variable
  analysisInterval,    \* visionPipeline module variable: interval id, 0 = null
  pipeTimers,          \* analysis intervals the browser will still fire
  pipeRuns,            \* history: number of runs started so far
  pipeIgnored,         \* history: a start was called while the current run ran
  pipeStopped,         \* history: runs for which stopAnalysis has returned
  pipeCalls,           \* interval callbacks suspended at an await
  pipeDelivered,       \* history: onResult invocations, [run, late]
  afPc,                \* analyzeFrame: "idle" | "server" | "moondream" | "subs" | "done"
  afCaller,            \* the isServerAvailable call analyzeFrame awaits
  afOpts,              \* options: [describeScene, customQuestion]
  afBackend,           \* "server" | "moondream" | "gemma" | "none"
  afSubs,              \* sub-requests: "none" | "pending" | "ok" | "failed"
  afDescription,       \* result.description: parts in order, <<>> = undefined
  lastResult,          \* visionPipeline module variable: description of it
  vaState,             \* VoiceAssistant useState: 'idle' | 'listening' | 'processing' | 'speaking'
  isListeningRef,      \* VoiceAssistant useRef(false)
  vaListening,         \* speech recognition sessions started and not yet settled
  vaPlan,              \* awaits the running processVoiceInput still has to pass
  vaFlags,             \* history of the session: [handler, speech] failed
  isWakeWordActive,    \* wake-word VoiceAssistant useState(false)
  recognitionRef,      \* useRef: wake-word recognition instance, 0 = null
  wakeRecs,            \* wake-word recognitions that are listening (auto-restarting)
  recsCreated,         \* number of wake-word recognitions created so far
  wwPc,                \* position of handleWakeWord, "idle" when none runs
  wwState,             \* wake-word VoiceAssistant useState<AssistantState>
  confirmActive,       \* the one-shot recognition of the confirmation listens
  wwToggledOff,        \* history: the user toggled off and not on again since
  panelOfflineMode,    \* OfflineModePanel useState offlineMode
  isModelLoading,      \* OfflineModePanel useState
  modelStatus,         \* "not_loaded" | "loading" | "ready" | "error"
  ollamaStatus,        \* "checking" | "connected" | "disconnected"
  activeModel,         \* "ollama" | "gpt2" | "none"
  mountPc,             \* checkOllama of the mount effect: "check" | "model" | "done"
  togglePc,            \* handleToggleOfflineMode: "idle" | "check" | "init"
  retryPending,        \* number of handleRetryOllama calls awaiting checkConnection
  lastLoad,            \* history: outcome of the load of the last toggle
  showSettings,        \* App useState(false)
  localPrefs,          \* SettingsPanel useState: [mounted, userId, emotionTracking]
  savedFor,            \* history: user matched at the last save, 0 = no save yet
  savedValue,          \* history: emotionTracking of the last save, "on" | "off"
  emotionAfterOptOut   \* history: emotion analysed for savedFor after an "off" save

appVars == <<appState, mounted, recognitionTimerRef, armedTimers, processingRef,
             pollReqs, voicePc, matchedUser, recognitionStatus,
             showGreetingOverlay, dismissTimers, storedUsers, prefs,
             emotionHistory, emotionSaved, regStep, regName, regReqs,
             switchTimers, matchStopped>>

logVars == <<storedLogs, logs, logSeq, logMounted>>
convVars == <<conversations, msgSaved>>
llmVars == <<ollamaReachable, ollamaAvailable, textGenerationModel, llmPc,
             llmCalls, llmStatus, llmOllamaFailed, llmGpt2Failed,
             llmReachableAtGpt2, llmFailedNoReset, llmResult>>
chatVars == <<offlineMode, chatPc, chatUser, chatForce, chatModeAtCall,
              chatOfflineEnabled, chatCalls,
              chatOnlineThrew, chatResult, chatAppended, llmVars>>

visVars == <<visPc, visOp, visCalls, visClaudeFailed, visOllamaUp,
             visOllamaFailed, visResult>>
callVars == <<svcPc, svcOp, svcFrames, svcContacted, svcFailed, svcResult>>
probeVars == <<clock, serverUp, serverAvailable, lastServerCheck, probeCalls,
               probeRet, healthRequests, storedProbe>>
svcVars == <<visVars, callVars, probeVars>>
voiceVars == <<lastTranscript, lastCommand>>

camVars == <<camMounted, camActive, camCycles, camLive, streamRef>>
pipeVars == <<isRunning, analysisInterval, pipeTimers, pipeRuns, pipeIgnored,
              pipeStopped, pipeCalls, pipeDelivered>>
frameVars == <<afPc, afCaller, afOpts, afBackend, afSubs, afDescription, lastResult>>
sessVars == <<vaState, isListeningRef, vaListening, vaPlan, vaFlags>>
wakeVars == <<isWakeWordActive, recognitionRef, wakeRecs, recsCreated, wwPc,
              wwState, confirmActive, wwToggledOff>>
panelVars == <<panelOfflineMode, isModelLoading, modelStatus, ollamaStatus,
               activeModel, mountPc, togglePc, retryPending, lastLoad>>
setVars == <<showSettings, localPrefs, savedFor, savedValue, emotionAfterOptOut>>
compVars == <<camVars, pipeVars, frameVars, sessVars, wakeVars, panelVars, setVars>>
oldVars == <<appVars, logVars, convVars, chatVars, svcVars, voiceVars>>

vars == <<oldVars, compVars>>

\* ------------------------------------------------------------- helpers
UserIds == 1..MaxUsers
\* ids a provider may answer with; MaxUsers + 1 is never in storage
AnswerIds == 1..(MaxUsers + 1)

\* String.prototype.trim / toLowerCase on the names the model uses
Trim(n) == IF n = "Ann " THEN "Ann" ELSE n
ToLowerCase(n) == IF n \in {"Ann", "ANN"} THEN "ann" ELSE IF n = "Ann " THEN "ann " ELSE n

\* keys of the stored preferences: a user id, or 0 for the key that
\* savePreferences builds from the user id '' (part_002 lines 90-95)
PrefKeys == {0} \cup AnswerIds

Min(S) == CHOOSE x \in S : \A y \in S : x <= y

\* Array.prototype.slice(-n): the last n elements
SliceLast(s, n) == IF Len(s) <= n THEN s ELSE SubSeq(s, Len(s) - n + 1, Len(s))
\* Array.prototype.slice(0, n): the first n elements
SliceFirst(s, n) == IF Len(s) <= n THEN s ELSE SubSeq(s, 1, n)

\* ------------------------------------------------------ storageService
\* findIndex(u => u.id === userId), 0 when absent
FindIndex(users, id) ==
  IF \E i \in 1..Len(users) : users[i].id = id
  THEN Min({i \in 1..Len(users) : users[i].id = id})
  ELSE 0

getUserById(users, id) == FindIndex(users, id)

checkNameExists(users, name) ==
  \E i \in 1..Len(users) : ToLowerCase(users[i].name) = ToLowerCase(name)

\* new Date(): a logical clock that advances with every stored update
Now(users) == 1 +
  (LET RECURSIVE Sum(_)
       Sum(i) == IF i = 0 THEN 0 ELSE users[i].interactionCount + Sum(i - 1)
   IN Sum(Len(users)))

updateUser(users, id, lastSeen, count) ==
  LET index == FindIndex(users, id) IN
  IF index # 0
  THEN [users EXCEPT ![index] = [@ EXCEPT !.lastSeen = lastSeen, !.interactionCount = count]]
  ELSE users

updateUserLastSeen(users, id) ==
  LET index == FindIndex(users, id)
      old == IF index = 0 THEN 0 ELSE users[index].interactionCount
  IN updateUser(users, id, Now(users), old + 1)

saveUser(users, user) == Append(users, user)

\* saveEmotion: push, then keep the last 100
EmotionCap == 100
saveEmotion(hist, n) == SliceLast(Append(hist, n), EmotionCap)

LogCap == 100

\* mutant: the oldest entries are kept instead of the newest
addLog_KeepOldest(stored, n) == SliceLast(<<n>> \o stored, 100)

\* storageService.addLog: [newLog, ...logs].slice(0, 100)
addLog(stored, n) == SliceFirst(<<n>> \o stored, LogCap)

\* ------------------------------------------------ conversationService
ConversationCap == 50

\* mutant: slice(0, 50) instead of slice(-50)
saveMessage_KeepOldest(hist, n) == SliceFirst(Append(hist, n), 50)

\* saveMessage: push, then keep the last 50
saveMessage(hist, n) == SliceLast(Append(hist, n), ConversationCap)

\* mutant: the stored offline flag is ignored
offlineModeEnabled_ForceOnly(forceOffline, stored) == forceOffline

\* generateResponse line 144: forceOffline || isOfflineMode()
offlineModeEnabled(forceOffline, stored) == forceOffline \/ stored

\* ------------------------------------------------- recognition loop
TimerIdsOf(armed) == {t.id : t \in armed}
\* setInterval returns an id no live timer has
FreshTimer(armed) == Min((1..(Cardinality(armed) + 1)) \ TimerIdsOf(armed))

\* clearInterval(id)
clearInterval(armed, id) == {t \in armed : t.id # id}

\* mutant: the ref is nulled but the interval is never cleared
stopRecognitionLoop_NoClear(loop) ==
  IF loop.ref # 0
  THEN [armed |-> loop.armed, ref |-> 0]
  ELSE loop

\* stopRecognitionLoop: clears the interval the ref names and nulls the ref
stopRecognitionLoop(loop) ==
  IF loop.ref # 0
  THEN [armed |-> clearInterval(loop.armed, loop.ref), ref |-> 0]
  ELSE loop

\* startRecognitionLoop: clears the interval the ref names, arms a new one
\* whose callback closes over the appState of the render (st)
startRecognitionLoop(loop, st) ==
  LET cleared == IF loop.ref # 0 THEN clearInterval(loop.armed, loop.ref) ELSE loop.armed
      id == FreshTimer(cleared)
  IN [armed |-> cleared \cup {[id |-> id, appState |-> st]}, ref |-> id]

\* useEffect on [appState]: cleanup of the previous run, then the body
appStateEffect(loop, st) ==
  LET cleaned == stopRecognitionLoop(loop) IN
  IF st = RECOGNITION THEN startRecognitionLoop(cleaned, st)
  ELSE stopRecognitionLoop(cleaned)

Loop == [armed |-> armedTimers, ref |-> recognitionTimerRef]

\* setAppState(st) [and stopRecognitionLoop() right after it when stopNow]:
\* no-op on an unmounted component; React bails out when the value is the
\* same, so the effect runs only on a change
SetAppState(st, stopNow) ==
  LET l1 == IF stopNow THEN stopRecognitionLoop(Loop) ELSE Loop
      l2 == IF mounted /\ st # appState THEN appStateEffect(l1, st) ELSE l1
  IN /\ appState' = IF mounted THEN st ELSE appState
     /\ armedTimers' = l2.armed
     /\ recognitionTimerRef' = l2.ref
     /\ matchStopped' = IF mounted /\ st # appState /\ st = RECOGNITION
                        THEN FALSE ELSE matchStopped

\* stopRecognitionLoop() called from a handler or a continuation
StopLoopNow ==
  LET l == stopRecognitionLoop(Loop) IN
  /\ armedTimers' = l.armed
  /\ recognitionTimerRef' = l.ref

\* setShowGreetingOverlay(true); setTimeout(() => setShowGreetingOverlay(false), 4000)
ShowOverlay ==
  /\ showGreetingOverlay' = IF mounted THEN TRUE ELSE showGreetingOverlay
  /\ dismissTimers' = Append([i \in 1..Len(dismissTimers) |-> FALSE], TRUE)

\* ------------------------------------------------ provider answers
\* what geminiService.recognizeUser hands to the caller: a parsed result
\* with a matched id, a no-match / error result, or a value the caller
\* chokes on (JSON "null": result.boundingBox throws inside the try)
RecognitionAnswers ==
  {[kind |-> "throw", id |-> 0], [kind |-> "nomatch", id |-> 0]}
    \cup {[kind |-> "match", id |-> i] : i \in AnswerIds}

\* what recognizeUser can answer when it was given the first `known` stored
\* users (geminiService.ts 91): never the id of a user registered after
\* the call
CanAnswer(known, ans) ==
  ans.kind = "match" => ~(known < ans.id /\ ans.id <= Len(storedUsers))

\* overlay timeouts pending or still to be started by a suspended match
OverlaySlots == Len(dismissTimers) + Cardinality({q \in pollReqs : q.stage = "emotion"})

FreshReq(reqs) == Min((1..(Cardinality(reqs) + 1)) \ {r.id : r \in reqs})

regVars == <<regStep, regName, regReqs, switchTimers>>
storeVars == <<storedUsers, prefs, emotionHistory, emotionSaved>>
loopVars == <<recognitionTimerRef, armedTimers, matchStopped>>
uiVars == <<matchedUser, recognitionStatus, showGreetingOverlay, dismissTimers>>

\* ------------------------------------------------- interval callback
\* a tick with no stored users: recognizeUser resolves at once without a
\* request (geminiService.ts 87-89), so the continuation runs in the same
\* task, before any other handler: status SCANNING (line 631), flag reset
TickNoUsers ==
  /\ recognitionStatus' = "SCANNING"
  /\ UNCHANGED <<appState, mounted, processingRef, pollReqs, voicePc, loopVars,
                 matchedUser, showGreetingOverlay, dismissTimers, storeVars,
                 regVars>>

\* mutant: the callback does not look at processingRef
Tick_NoFlag(t) ==
  /\ t \in armedTimers
  /\ IF t.appState # RECOGNITION \/ ~mounted
     THEN UNCHANGED appVars
     ELSE IF storedUsers = <<>>
     THEN TickNoUsers
     ELSE /\ processingRef' = TRUE
          /\ pollReqs' = pollReqs \cup
               {[id |-> FreshReq(pollReqs), stage |-> "recognize", user |-> 0,
                 known |-> Len(storedUsers)]}
          /\ UNCHANGED <<appState, mounted, voicePc, loopVars, uiVars,
                         storeVars, regVars>>

\* lines 577-588: the callback of interval t up to its first await
Tick(t) ==
  /\ t \in armedTimers
  /\ IF t.appState # RECOGNITION \/ processingRef
     THEN UNCHANGED appVars
     ELSE IF ~mounted                       \* cameraRef.current is null
     THEN UNCHANGED appVars
     ELSE \E image \in BOOLEAN :            \* capture() gives a frame or null
          IF image /\ storedUsers = <<>>
          THEN TickNoUsers
          ELSE IF image
          THEN /\ processingRef' = TRUE
               /\ pollReqs' = pollReqs \cup
                    {[id |-> FreshReq(pollReqs), stage |-> "recognize", user |-> 0,
                      known |-> Len(storedUsers)]}
               /\ UNCHANGED <<appState, mounted, voicePc, loopVars, uiVars,
                              storeVars, regVars>>
          ELSE UNCHANGED appVars               \* flag set and cleared at once

\* mutant: a match leaves the interval running (as App v1 does)
FinishMatch_NoStop ==
  /\ ShowOverlay
  /\ UNCHANGED <<armedTimers, recognitionTimerRef>>
  /\ matchStopped' = TRUE
  /\ processingRef' = FALSE

\* lines 619-627 and 636: overlay, its timeout, stop of the loop, flag reset
FinishMatch ==
  /\ ShowOverlay
  /\ StopLoopNow
  /\ matchStopped' = TRUE
  /\ processingRef' = FALSE

\* mutant: the flag is reset inside the try, so a throw skips the reset
PollRecognizeDone_FlagInTry(r, ans) ==
  /\ r \in pollReqs
  /\ r.stage = "recognize"
  /\ CanAnswer(r.known, ans)
  /\ LET index == IF ans.kind = "match" THEN getUserById(storedUsers, ans.id) ELSE 0 IN
     IF ans.kind = "match" /\ index # 0
     THEN \* matched a stored user
          /\ storedUsers[index].interactionCount < MaxInteractions
          /\ OverlaySlots < MaxDismissTimers
          /\ matchedUser' = IF mounted THEN ans.id ELSE matchedUser
          /\ recognitionStatus' = IF mounted THEN "MATCHED" ELSE recognitionStatus
          /\ storedUsers' = updateUserLastSeen(storedUsers, ans.id)
          /\ IF prefs[ans.id] # "off"
             THEN \* await emotionService.analyzeEmotion(image)
                  /\ pollReqs' = (pollReqs \ {r}) \cup
                       {[id |-> r.id, stage |-> "emotion", user |-> ans.id, known |-> r.known]}
                  /\ UNCHANGED <<processingRef, loopVars, showGreetingOverlay,
                                 dismissTimers>>
             ELSE /\ FinishMatch
                  /\ pollReqs' = pollReqs \ {r}
          /\ UNCHANGED <<appState, mounted, voicePc, prefs, emotionHistory,
                         emotionSaved, regVars>>
     ELSE /\ recognitionStatus' =
               IF mounted /\ ans.kind = "nomatch" THEN "SCANNING" ELSE recognitionStatus
          /\ processingRef' = IF ans.kind = "throw" THEN processingRef ELSE FALSE
          /\ pollReqs' = pollReqs \ {r}
          /\ UNCHANGED <<appState, mounted, voicePc, loopVars, matchedUser,
                         showGreetingOverlay, dismissTimers, storeVars, regVars>>

\* lines 588-636: the continuation after await recognizeUser
PollRecognizeDone(r, ans) ==
  /\ r \in pollReqs
  /\ r.stage = "recognize"
  /\ CanAnswer(r.known, ans)
  /\ LET index == IF ans.kind = "match" THEN getUserById(storedUsers, ans.id) ELSE 0 IN
     IF ans.kind = "match" /\ index # 0
     THEN \* matched a stored user
          /\ storedUsers[index].interactionCount < MaxInteractions
          /\ OverlaySlots < MaxDismissTimers
          /\ matchedUser' = IF mounted THEN ans.id ELSE matchedUser
          /\ recognitionStatus' = IF mounted THEN "MATCHED" ELSE recognitionStatus
          /\ storedUsers' = updateUserLastSeen(storedUsers, ans.id)
          /\ IF prefs[ans.id] # "off"
             THEN \* await emotionService.analyzeEmotion(image)
                  /\ pollReqs' = (pollReqs \ {r}) \cup
                       {[id |-> r.id, stage |-> "emotion", user |-> ans.id, known |-> r.known]}
                  /\ UNCHANGED <<processingRef, loopVars, showGreetingOverlay,
                                 dismissTimers>>
             ELSE /\ FinishMatch
                  /\ pollReqs' = pollReqs \ {r}
          /\ UNCHANGED <<appState, mounted, voicePc, prefs, emotionHistory,
                         emotionSaved, regVars>>
     ELSE /\ recognitionStatus' =
               IF mounted /\ ans.kind = "nomatch" THEN "SCANNING" ELSE recognitionStatus
          /\ processingRef' = FALSE
          /\ pollReqs' = pollReqs \ {r}
          /\ UNCHANGED <<appState, mounted, voicePc, loopVars, matchedUser,
                         showGreetingOverlay, dismissTimers, storeVars, regVars>>

\* lines 612-636: the continuation after await analyzeEmotion
PollEmotionDone(r) ==
  /\ r \in pollReqs
  /\ r.stage = "emotion"
  /\ emotionSaved' = [emotionSaved EXCEPT ![r.user] = @ + 1]
  /\ emotionHistory' = [emotionHistory EXCEPT
                          ![r.user] = saveEmotion(@, emotionSaved[r.user] + 1)]
  /\ FinishMatch
  /\ pollReqs' = pollReqs \ {r}
  /\ UNCHANGED <<appState, mounted, voicePc, matchedUser, recognitionStatus,
                 storedUsers, prefs, regVars>>

\* ------------------------------------------------------ mode switches
\* Monitor button (line 822), voice start_recognition (730, 908)
EnterRecognition ==
  /\ mounted
  /\ SetAppState(RECOGNITION, FALSE)
  /\ UNCHANGED <<mounted, processingRef, pollReqs, voicePc, uiVars, storeVars, regVars>>

\* lines 491-499: Register User button, voice register_user
startRegistration ==
  /\ mounted
  /\ SetAppState(REGISTRATION, TRUE)
  /\ regStep' = "NAME"
  /\ regName' = ""
  /\ UNCHANGED <<mounted, processingRef, pollReqs, voicePc, uiVars, storeVars,
                 regReqs, switchTimers>>

\* lines 737-742 and 910-914: voice stop_recognition
VoiceStopRecognition ==
  /\ mounted
  /\ SetAppState(IDLE, TRUE)
  /\ matchedUser' = 0
  /\ UNCHANGED <<mounted, processingRef, pollReqs, voicePc, recognitionStatus,
                 showGreetingOverlay, dismissTimers, storeVars, regVars>>

\* mutant: the effect returns no cleanup
Teardown_NoCleanup ==
  /\ mounted
  /\ mounted' = FALSE
  /\ UNCHANGED <<armedTimers, recognitionTimerRef>>
  /\ UNCHANGED <<appState, matchStopped, processingRef, pollReqs, voicePc, uiVars,
                 storeVars, regVars>>

\* effect cleanup of line 654 when the component is torn down
Teardown ==
  /\ mounted
  /\ mounted' = FALSE
  /\ StopLoopNow
  /\ UNCHANGED <<appState, matchStopped, processingRef, pollReqs, voicePc, uiVars,
                 storeVars, regVars>>

\* ------------------------------------------------------- registration
\* line 994: onChange of the name field
SetRegName(n) ==
  /\ mounted /\ appState = REGISTRATION /\ regStep = "NAME"
  /\ regName' = n
  /\ UNCHANGED <<appState, mounted, processingRef, pollReqs, voicePc, loopVars,
                 uiVars, storeVars, regStep, regReqs, switchTimers>>

\* lines 501-513
validateName ==
  /\ mounted /\ appState = REGISTRATION /\ regStep = "NAME"
  /\ regStep' = IF Trim(regName) = "" \/ checkNameExists(storedUsers, Trim(regName))
                THEN regStep ELSE "CAPTURE"
  /\ UNCHANGED <<appState, mounted, processingRef, pollReqs, voicePc, loopVars,
                 uiVars, storeVars, regName, regReqs, switchTimers>>

\* lines 1013 (Back) and 1039 (Retry Capture)
SetRegStep(from, to) ==
  /\ mounted /\ appState = REGISTRATION /\ regStep = from
  /\ regStep' = to
  /\ UNCHANGED <<appState, mounted, processingRef, pollReqs, voicePc, loopVars,
                 uiVars, storeVars, regName, regReqs, switchTimers>>

\* what analyzeRegistrationImage hands to captureAndRegister
Detections ==
  [faceDetected : BOOLEAN, multipleFaces : BOOLEAN,
   qualityCheckPassed : BOOLEAN, description : BOOLEAN]

\* mutant: the quality / description check of lines 542-544 is left out
DetectionAccepted_NoQuality(d) ==
  /\ d.faceDetected
  /\ ~d.multipleFaces

\* lines 536-544: the three rejections
DetectionAccepted(d) ==
  /\ d.faceDetected
  /\ ~d.multipleFaces
  /\ ~(~d.qualityCheckPassed /\ ~d.description)

\* lines 515-530: captureAndRegister up to its await
captureAndRegister ==
  /\ mounted /\ appState = REGISTRATION /\ regStep = "CAPTURE"
  /\ Cardinality(regReqs) < MaxRegInFlight
  /\ \E image \in BOOLEAN :
       IF image
       THEN /\ regStep' = "PROCESSING"
            /\ regReqs' = regReqs \cup {[id |-> FreshReq(regReqs), name |-> regName]}
       ELSE /\ regStep' = "CAPTURE"
            /\ UNCHANGED regReqs
  /\ UNCHANGED <<appState, mounted, processingRef, pollReqs, voicePc, loopVars,
                 uiVars, storeVars, regName, switchTimers>>

\* lines 530-570: the continuation after await analyzeRegistrationImage,
\* with at most cap users stored
RegisterDoneUpTo(r, d, cap) ==
  /\ r \in regReqs
  /\ regReqs' = regReqs \ {r}
  /\ IF DetectionAccepted(d)
     THEN /\ Len(storedUsers) < cap
          /\ storedUsers' = saveUser(storedUsers,
               [id |-> Len(storedUsers) + 1, name |-> r.name,
                interactionCount |-> 0, lastSeen |-> 0])
          /\ regStep' = IF mounted THEN "COMPLETE" ELSE regStep
          /\ switchTimers' = switchTimers + 1
     ELSE /\ regStep' = IF mounted THEN "ERROR" ELSE regStep
          /\ UNCHANGED <<storedUsers, switchTimers>>
  /\ UNCHANGED <<appState, mounted, processingRef, pollReqs, voicePc, loopVars,
                 uiVars, prefs, emotionHistory, emotionSaved, regName>>

RegisterDone(r, d) == RegisterDoneUpTo(r, d, MaxUsers)

\* lines 559-563: the 3000 ms timeout after a registration
SwitchTimeout ==
  /\ switchTimers > 0
  /\ switchTimers' = switchTimers - 1
  /\ SetAppState(RECOGNITION, FALSE)
  /\ UNCHANGED <<mounted, processingRef, pollReqs, voicePc, uiVars, storeVars,
                 regStep, regName, regReqs>>

\* ------------------------------------------- voice-triggered recognition
\* VoiceAssistant handlePhotoCapture, lines 172-186, with onCaptureRequest (881)
VoiceCapture ==
  /\ mounted
  /\ voicePc = "idle"
  /\ \E image \in BOOLEAN : voicePc' = IF image THEN "recognize" ELSE "idle"
  /\ UNCHANGED <<appState, mounted, processingRef, pollReqs, loopVars, uiVars,
                 storeVars, regVars>>

\* lines 882-898: onRecognizeRequest after await recognizeUser
VoiceRecognizeDone(ans) ==
  /\ voicePc = "recognize"
  /\ voicePc' = "idle"
  /\ IF ans.kind = "match" /\ getUserById(storedUsers, ans.id) # 0
     THEN /\ OverlaySlots < MaxDismissTimers
          /\ matchedUser' = IF mounted THEN ans.id ELSE matchedUser
          /\ recognitionStatus' = IF mounted THEN "MATCHED" ELSE recognitionStatus
          /\ ShowOverlay
          /\ StopLoopNow
     ELSE UNCHANGED <<uiVars, recognitionTimerRef, armedTimers>>
  /\ UNCHANGED <<appState, mounted, processingRef, pollReqs, matchStopped,
                 storeVars, regVars>>

\* lines 621-623 and 891: the oldest pending overlay timeout fires
DismissFire ==
  /\ dismissTimers # <<>>
  /\ dismissTimers' = Tail(dismissTimers)
  /\ showGreetingOverlay' = IF mounted THEN FALSE ELSE showGreetingOverlay
  /\ UNCHANGED <<appState, mounted, processingRef, pollReqs, voicePc, loopVars,
                 matchedUser, recognitionStatus, storeVars, regVars>>

\* ---------------------------------------------------------------- App
AppInit ==
  /\ appState = RECOGNITION
  /\ mounted = TRUE
  /\ recognitionTimerRef = 1
  /\ armedTimers = {[id |-> 1, appState |-> RECOGNITION]}
  /\ processingRef = FALSE
  /\ pollReqs = {}
  /\ voicePc = "idle"
  /\ matchedUser = 0
  /\ recognitionStatus = "SCANNING"
  /\ showGreetingOverlay = FALSE
  /\ dismissTimers = <<>>
  /\ storedUsers = <<>>
  /\ prefs = [u \in PrefKeys |-> "none"]
  /\ regStep = "NAME"
  /\ regName = ""
  /\ regReqs = {}
  /\ switchTimers = 0
  /\ matchStopped = FALSE

EmotionInit(users) ==
  /\ emotionHistory = [u \in users |-> <<>>]
  /\ emotionSaved = [u \in users |-> 0]

LogInit ==
  /\ storedLogs = <<>>
  /\ logs = <<>>
  /\ logSeq = 0
  /\ logMounted = FALSE

ConvInit(users) ==
  /\ conversations = [u \in users |-> <<>>]
  /\ msgSaved = [u \in users |-> 0]

ChatInit ==
  /\ offlineMode = FALSE
  /\ chatPc = "idle"
  /\ chatUser = 0
  /\ chatForce = FALSE
  /\ chatModeAtCall = FALSE
  /\ chatOfflineEnabled = FALSE
  /\ chatCalls = <<>>
  /\ chatOnlineThrew = FALSE
  /\ chatResult = [text |-> "none", usedOffline |-> FALSE]
  /\ chatAppended = <<>>
  /\ ollamaReachable = TRUE
  /\ ollamaAvailable = "null"
  /\ textGenerationModel = FALSE
  /\ llmPc = "idle"
  /\ llmCalls = <<>>
  /\ llmStatus = "none"
  /\ llmOllamaFailed = FALSE
  /\ llmGpt2Failed = FALSE
  /\ llmReachableAtGpt2 = FALSE
  /\ llmFailedNoReset = FALSE
  /\ llmResult = "none"

VisInit ==
  /\ visPc = "idle"
  /\ visOp = "recognizeUser"
  /\ visCalls = <<>>
  /\ visClaudeFailed = FALSE
  /\ visOllamaUp = FALSE
  /\ visOllamaFailed = FALSE
  /\ visResult = [from |-> "none", found |-> FALSE, confidence |-> 0, tagged |-> FALSE]

CallInit ==
  /\ svcPc = "idle"
  /\ svcOp = "recognizeUser"
  /\ svcFrames = 0
  /\ svcContacted = FALSE
  /\ svcFailed = FALSE
  /\ svcResult = [thrown |-> FALSE, positive |-> FALSE, confidence |-> 0]

\* Date.now() when the page loads (any value of at least CacheMs)
StartMs == 20000
ProbeCallers == {1, 2}

ProbeInit ==
  /\ clock = StartMs
  /\ serverUp = TRUE
  /\ serverAvailable = FALSE
  /\ lastServerCheck = 0
  /\ probeCalls = [c \in ProbeCallers |-> [pc |-> "idle", now |-> 0, issuedAt |-> 0]]
  /\ probeRet = [c \in ProbeCallers |-> [value |-> FALSE, cached |-> FALSE]]
  /\ healthRequests = 0
  /\ storedProbe = [any |-> FALSE, issuedAt |-> 0, outcome |-> "none"]

\* VoiceAssistant state after the first render
VoiceInit ==
  /\ lastTranscript = <<>>
  /\ lastCommand = "none"

\* Camera after mount: the effect ran once and, the camera being active,
\* its getUserMedia request is pending
CamInit ==
  /\ camMounted = TRUE
  /\ camActive = TRUE
  /\ camCycles = <<[pc |-> "requesting", isMounted |-> TRUE, localStream |-> FALSE]>>
  /\ camLive = {}
  /\ streamRef = 0

\* visionPipeline module state, lines 31-33
PipeInit ==
  /\ isRunning = FALSE
  /\ analysisInterval = 0
  /\ pipeTimers = {}
  /\ pipeRuns = 0
  /\ pipeIgnored = FALSE
  /\ pipeStopped = {}
  /\ pipeCalls = {}
  /\ pipeDelivered = {}

\* no analyzeFrame call is running
FrameInit ==
  /\ afPc = "idle"
  /\ afCaller = 1
  /\ afOpts = [describeScene |-> FALSE, customQuestion |-> FALSE]
  /\ afBackend = "none"
  /\ afSubs = [scene |-> "none", question |-> "none"]
  /\ afDescription = <<>>
  /\ lastResult = <<>>

\* VoiceAssistant.tsx 23-26
SessInit ==
  /\ vaState = "idle"
  /\ isListeningRef = FALSE
  /\ vaListening = 0
  /\ vaPlan = <<>>
  /\ vaFlags = [handler |-> FALSE, speech |-> FALSE]

\* VoiceAssistant.tsx 395-400
WakeInit ==
  /\ isWakeWordActive = FALSE
  /\ recognitionRef = 0
  /\ wakeRecs = {}
  /\ recsCreated = 0
  /\ wwPc = "idle"
  /\ wwState = "idle"
  /\ confirmActive = FALSE
  /\ wwToggledOff = FALSE

\* part_004 11-16 and the synchronous part of the mount effect, 18-48
PanelInit ==
  /\ panelOfflineMode = FALSE
  /\ isModelLoading = FALSE
  /\ modelStatus = "not_loaded"
  /\ ollamaStatus = "checking"
  /\ activeModel = "none"
  /\ mountPc = "check"
  /\ togglePc = "idle"
  /\ retryPending = 0
  /\ lastLoad = "none"

\* no SettingsPanel is rendered
Unmounted == [mounted |-> FALSE, userId |-> 0, emotionTracking |-> TRUE]

\* part_000 line 460
SetInit ==
  /\ showSettings = FALSE
  /\ localPrefs = Unmounted
  /\ savedFor = 0
  /\ savedValue = "none"
  /\ emotionAfterOptOut = FALSE

CompInit ==
  CamInit /\ PipeInit /\ FrameInit /\ SessInit /\ WakeInit /\ PanelInit /\ SetInit

SvcInit == VisInit /\ CallInit /\ ProbeInit /\ VoiceInit /\ CompInit

appOnlyVars == <<appState, mounted, recognitionTimerRef, armedTimers, processingRef,
                 pollReqs, voicePc, matchedUser, recognitionStatus,
                 showGreetingOverlay, dismissTimers, storedUsers, prefs,
                 regStep, regName, regReqs, switchTimers, matchStopped>>
emotionVars == <<emotionHistory, emotionSaved>>

\* the actions of the App component leave the other services' state alone
AppFrame == UNCHANGED <<logVars, convVars, chatVars, svcVars, voiceVars, compVars>>

Init ==
  AppInit /\ EmotionInit(UserIds) /\ LogInit /\ ConvInit(UserIds) /\ ChatInit /\ SvcInit

Next ==
  \/ (\E t \in armedTimers : Tick(t)) /\ AppFrame
  \/ (\E r \in pollReqs : \E ans \in RecognitionAnswers : PollRecognizeDone(r, ans)) /\ AppFrame
  \/ (\E r \in pollReqs : PollEmotionDone(r)) /\ AppFrame
  \/ EnterRecognition /\ AppFrame
  \/ startRegistration /\ AppFrame
  \/ VoiceStopRecognition /\ AppFrame
  \/ Teardown /\ AppFrame
  \/ (\E n \in AppRegNames : SetRegName(n)) /\ AppFrame
  \/ validateName /\ AppFrame
  \/ SetRegStep("CAPTURE", "NAME") /\ AppFrame
  \/ SetRegStep("ERROR", "CAPTURE") /\ AppFrame
  \/ captureAndRegister /\ AppFrame
  \/ (\E r \in regReqs : \E d \in Detections : RegisterDone(r, d)) /\ AppFrame
  \/ SwitchTimeout /\ AppFrame
  \/ VoiceCapture /\ AppFrame
  \/ (\E ans \in RecognitionAnswers : VoiceRecognizeDone(ans)) /\ AppFrame
  \/ DismissFire /\ AppFrame

Spec == Init /\ [][Next]_vars

\* ------------------------------------------------------------ RegSpec
\* Registration on its own, with room for several users and with names
\* that differ in letter case and in surrounding whitespace.
RegNames == {"Ann", "ANN", "Ann "}

RegNext ==
  \/ startRegistration /\ AppFrame
  \/ (\E n \in RegNames : SetRegName(n)) /\ AppFrame
  \/ validateName /\ AppFrame
  \/ SetRegStep("CAPTURE", "NAME") /\ AppFrame
  \/ SetRegStep("ERROR", "CAPTURE") /\ AppFrame
  \/ captureAndRegister /\ AppFrame
  \/ (\E r \in regReqs : \E d \in Detections : RegisterDoneUpTo(r, d, MaxRegUsers)) /\ AppFrame
  \/ SwitchTimeout /\ AppFrame

RegSpec == Init /\ [][RegNext]_vars

\* ------------------------------------------------------------ LogSpec
\* App.addLog, lines 481-484 (setLogs is a no-op once the App is unmounted)
AppAddLog ==
  /\ logSeq < MaxLogSeq
  /\ logSeq' = logSeq + 1
  /\ storedLogs' = addLog(storedLogs, logSeq + 1)
  /\ logs' = IF logMounted THEN SliceLast(Append(logs, logSeq + 1), LogCap) ELSE logs
  /\ UNCHANGED logMounted

\* App initialization effect, lines 472-478: load, then log 'System Initialized'
LogAppStart ==
  /\ ~logMounted
  /\ logSeq < MaxLogSeq
  /\ logMounted' = TRUE
  /\ logSeq' = logSeq + 1
  /\ storedLogs' = addLog(storedLogs, logSeq + 1)
  /\ logs' = SliceLast(Append(storedLogs, logSeq + 1), LogCap)

\* the page is closed: the component state is gone, localStorage stays
LogAppClose ==
  /\ logMounted
  /\ logMounted' = FALSE
  /\ logs' = <<>>
  /\ UNCHANGED <<storedLogs, logSeq>>

LogFrame == UNCHANGED <<appVars, convVars, chatVars, svcVars, voiceVars, compVars>>

LogNext ==
  \/ AppAddLog /\ LogFrame
  \/ LogAppStart /\ LogFrame
  \/ LogAppClose /\ LogFrame

LogSpec == Init /\ [][LogNext]_vars

\* ----------------------------------------------------------- HistSpec
HistUsers == {1, 2}
\* user 1 may save past the cap, the other users a few entries
SaveLimit(u, cap) == IF u = 1 THEN cap + MaxOver ELSE MaxOver + 1

\* conversationService.saveMessage(userId, message), lines 30-37
SaveMessage(u) ==
  /\ msgSaved[u] < SaveLimit(u, ConversationCap)
  /\ msgSaved' = [msgSaved EXCEPT ![u] = @ + 1]
  /\ conversations' = [conversations EXCEPT ![u] = saveMessage(@, msgSaved[u] + 1)]

\* storageService.saveEmotion(userId, emotion), lines 115-122
SaveEmotion(u) ==
  /\ emotionSaved[u] < SaveLimit(u, EmotionCap)
  /\ emotionSaved' = [emotionSaved EXCEPT ![u] = @ + 1]
  /\ emotionHistory' = [emotionHistory EXCEPT ![u] = saveEmotion(@, emotionSaved[u] + 1)]

HistInit ==
  AppInit /\ EmotionInit(HistUsers) /\ LogInit /\ ConvInit(HistUsers) /\ ChatInit
    /\ SvcInit

HistNext ==
  \/ (\E u \in HistUsers : SaveMessage(u))
       /\ UNCHANGED <<appOnlyVars, emotionVars, logVars, chatVars, svcVars, voiceVars, compVars>>
  \/ (\E u \in HistUsers : SaveEmotion(u))
       /\ UNCHANGED <<appOnlyVars, convVars, logVars, chatVars, svcVars, voiceVars, compVars>>

HistSpec == HistInit /\ [][HistNext]_vars

\* ----------------------------------------------------------- ChatSpec
BoolString(b) == IF b THEN "true" ELSE "false"

llmHistory == <<llmStatus, llmOllamaFailed, llmGpt2Failed, llmReachableAtGpt2>>

\* generateTextLocal turns to GPT-2 (securityService.ts lines 280-286)
ToGpt2 ==
  /\ llmPc' = "gpt2"
  /\ llmCalls' = Append(llmCalls, "gpt2")
  /\ llmReachableAtGpt2' = ollamaReachable

\* generateTextLocal calls ollamaService.generateText (line 273)
ToOllama ==
  /\ llmPc' = "ollama"
  /\ llmCalls' = Append(llmCalls, "ollama")
  /\ UNCHANGED llmReachableAtGpt2

\* generateTextLocal lines 267-273 with checkOllamaStatus (198-203): the
\* server is asked only while the module variable is null
LlmStart ==
  /\ llmOllamaFailed' = FALSE
  /\ llmGpt2Failed' = FALSE
  /\ IF ollamaAvailable = "null"
     THEN /\ llmPc' = "probe"
          /\ llmCalls' = <<"checkConnection">>
          /\ llmStatus' = "none"
          /\ llmReachableAtGpt2' = FALSE
     ELSE /\ llmStatus' = ollamaAvailable
          /\ IF ollamaAvailable = "true"
             THEN /\ llmPc' = "ollama"
                  /\ llmCalls' = <<"ollama">>
                  /\ llmReachableAtGpt2' = FALSE
             ELSE /\ llmPc' = "gpt2"
                  /\ llmCalls' = <<"gpt2">>
                  /\ llmReachableAtGpt2' = ollamaReachable
  /\ UNCHANGED <<ollamaReachable, ollamaAvailable, textGenerationModel,
                 llmFailedNoReset, llmResult>>

\* processMessage lines 174-197 and generateResponse lines 137-154 up to the
\* first provider call
ProcessMessage(u, forceOffline) ==
  /\ chatPc = "idle"
  /\ msgSaved[u] + 2 <= MaxChatSaves
  /\ msgSaved' = [msgSaved EXCEPT ![u] = @ + 1]
  /\ conversations' = [conversations EXCEPT ![u] = saveMessage(@, msgSaved[u] + 1)]
  /\ chatAppended' = <<"user">>
  /\ chatUser' = u
  /\ chatForce' = forceOffline
  /\ chatModeAtCall' = offlineMode
  /\ chatOfflineEnabled' = offlineModeEnabled(forceOffline, offlineMode)
  /\ chatOnlineThrew' = FALSE
  /\ IF ~chatOfflineEnabled'
     THEN chatPc' = "online" /\ chatCalls' = <<"online">> /\ UNCHANGED llmVars
     ELSE chatPc' = "offline" /\ chatCalls' = <<"offline">> /\ LlmStart
  /\ UNCHANGED <<offlineMode, chatResult>>

\* lines 205-215: the assistant message is saved and returned
SaveAssistant ==
  /\ msgSaved' = [msgSaved EXCEPT ![chatUser] = @ + 1]
  /\ conversations' = [conversations EXCEPT
                         ![chatUser] = saveMessage(@, msgSaved[chatUser] + 1)]
  /\ chatAppended' = Append(chatAppended, "assistant")
  /\ chatPc' = "idle"

\* line 155: generateResponseOnline resolved
OnlineReturn ==
  /\ chatPc = "online"
  /\ chatResult' = [text |-> "online", usedOffline |-> FALSE]
  /\ SaveAssistant
  /\ UNCHANGED <<offlineMode, chatUser, chatForce, chatModeAtCall,
                 chatOfflineEnabled, chatCalls, chatOnlineThrew, llmVars>>

\* variant: the rejection of the online call is not caught
OnlineThrow_Uncaught ==
  /\ chatPc = "online"
  /\ chatOnlineThrew' = TRUE
  /\ chatPc' = "rejected"
  /\ UNCHANGED <<convVars, offlineMode, chatUser, chatForce, chatModeAtCall,
                 chatOfflineEnabled, chatResult, chatAppended, chatCalls, llmVars>>

\* lines 156-167: generateResponseOnline rejected, the offline model is called
OnlineThrow ==
  /\ chatPc = "online"
  /\ chatOnlineThrew' = TRUE
  /\ chatPc' = "offline"
  /\ chatCalls' = Append(chatCalls, "offline")
  /\ LlmStart
  /\ UNCHANGED <<convVars, offlineMode, chatUser, chatForce, chatModeAtCall,
                 chatOfflineEnabled, chatResult, chatAppended>>

llmFrame ==
  UNCHANGED <<convVars, offlineMode, chatPc, chatUser, chatForce, chatModeAtCall,
              chatOfflineEnabled, chatCalls, chatOnlineThrew, chatResult,
              chatAppended>>

\* checkOllamaStatus line 200: await ollamaService.checkConnection()
LlmProbeDone ==
  /\ llmPc = "probe"
  /\ ollamaAvailable' = BoolString(ollamaReachable)
  /\ llmStatus' = BoolString(ollamaReachable)
  /\ llmFailedNoReset' = IF ollamaReachable THEN llmFailedNoReset ELSE TRUE
  /\ IF ollamaReachable THEN ToOllama ELSE ToGpt2
  /\ UNCHANGED <<ollamaReachable, textGenerationModel, llmOllamaFailed,
                 llmGpt2Failed, llmResult>>
  /\ llmFrame

\* line 273: ollamaService.generateText resolved, or rejected (lines 275-278);
\* it rejects when the server is not reachable and may reject when it is
LlmOllamaDone(ok) ==
  /\ llmPc = "ollama"
  /\ ok => ollamaReachable
  /\ IF ok
     THEN /\ llmPc' = "done"
          /\ llmResult' = "ollama"
          /\ UNCHANGED <<ollamaAvailable, llmCalls, llmOllamaFailed,
                         llmReachableAtGpt2, llmFailedNoReset>>
     ELSE /\ ollamaAvailable' = "false"
          /\ llmOllamaFailed' = TRUE
          /\ llmFailedNoReset' = TRUE
          /\ ToGpt2
          /\ UNCHANGED llmResult
  /\ UNCHANGED <<ollamaReachable, textGenerationModel, llmStatus, llmGpt2Failed>>
  /\ llmFrame

\* variant: a GPT-2 failure is not caught
LlmGpt2Done_NoCatch(ok) ==
  /\ llmPc = "gpt2"
  /\ llmPc' = "done"
  /\ llmGpt2Failed' = ~ok
  /\ llmResult' = IF ok THEN "gpt2" ELSE "exception"
  /\ textGenerationModel' = (textGenerationModel \/ ok)
  /\ UNCHANGED <<ollamaReachable, ollamaAvailable, llmCalls, llmStatus,
                 llmOllamaFailed, llmReachableAtGpt2, llmFailedNoReset>>
  /\ llmFrame

\* lines 281-297: GPT-2 is loaded if needed and generates, or the catch
\* returns the fixed message
LlmGpt2Done(ok) ==
  /\ llmPc = "gpt2"
  /\ llmPc' = "done"
  /\ llmGpt2Failed' = ~ok
  /\ llmResult' = IF ok THEN "gpt2" ELSE "fixed"
  /\ textGenerationModel' = (textGenerationModel \/ ok)
  /\ UNCHANGED <<ollamaReachable, ollamaAvailable, llmCalls, llmStatus,
                 llmOllamaFailed, llmReachableAtGpt2, llmFailedNoReset>>
  /\ llmFrame

\* generateResponse line 168: generateResponseOffline resolved with the
\* local text (conversationService.ts lines 124-127)
OfflineReturn ==
  /\ chatPc = "offline"
  /\ llmPc = "done"
  /\ llmPc' = "idle"
  /\ chatResult' = [text |-> "offline", usedOffline |-> TRUE]
  /\ SaveAssistant
  /\ UNCHANGED <<offlineMode, chatUser, chatForce, chatModeAtCall,
                 chatOfflineEnabled, chatCalls, chatOnlineThrew,
                 ollamaReachable, ollamaAvailable, textGenerationModel,
                 llmCalls, llmHistory, llmFailedNoReset, llmResult>>

\* conversationService.setOfflineMode, lines 56-58
SetOfflineMode(enabled) ==
  /\ offlineMode' = enabled
  /\ UNCHANGED <<convVars, chatPc, chatUser, chatForce, chatModeAtCall,
                 chatOfflineEnabled, chatCalls, chatOnlineThrew, chatResult,
                 chatAppended, llmVars>>

\* the Ollama server is started or stopped
OllamaToggle ==
  /\ ollamaReachable' = ~ollamaReachable
  /\ UNCHANGED <<ollamaAvailable, textGenerationModel, llmPc, llmCalls,
                 llmHistory, llmFailedNoReset, llmResult>>
  /\ llmFrame

\* OfflineModePanel handleRetryOllama: localLLMService.resetOllamaStatus()
ResetOllamaStatus ==
  /\ ollamaAvailable' = "null"
  /\ llmFailedNoReset' = FALSE
  /\ UNCHANGED <<ollamaReachable, textGenerationModel, llmPc, llmCalls,
                 llmHistory, llmResult>>
  /\ llmFrame

ChatFrame == UNCHANGED <<appVars, logVars, svcVars, voiceVars, compVars>>

ChatNext ==
  \/ (\E u \in HistUsers : \E f \in BOOLEAN : ProcessMessage(u, f)) /\ ChatFrame
  \/ OnlineReturn /\ ChatFrame
  \/ OnlineThrow /\ ChatFrame
  \/ OfflineReturn /\ ChatFrame
  \/ (\E b \in BOOLEAN : SetOfflineMode(b)) /\ ChatFrame
  \/ LlmProbeDone /\ ChatFrame
  \/ (\E ok \in BOOLEAN : LlmOllamaDone(ok)) /\ ChatFrame
  \/ (\E ok \in BOOLEAN : LlmGpt2Done(ok)) /\ ChatFrame
  \/ OllamaToggle /\ ChatFrame
  \/ ResetOllamaStatus /\ ChatFrame

ChatSpec == HistInit /\ [][ChatNext]_vars

\* --------------------------------------------------------- VisionSpec
\* what a vision model answers: the request fails (network, HTTP status,
\* no text, unparsable JSON), or JSON with the fields found / confidence /
\* text (greeting or description present)
VisionAnswers ==
  {[kind |-> "fail", found |-> FALSE, confidence |-> 0, text |-> FALSE]}
    \cup [kind : {"json"}, found : BOOLEAN, confidence : {0, 1}, text : BOOLEAN]

\* claudeService lines 95-100 and 195-199
DefaultResult == [from |-> "default", found |-> FALSE, confidence |-> 0, tagged |-> FALSE]

\* ollamaService.recognizeUser / detectFaceForRegistration: a failure of
\* analyzeImage or an answer without JSON gives the no-match result; the
\* caller appends ' (Offline Mode)' to a present greeting / description
ollamaResult(op, ans) ==
  IF ans.kind = "json"
  THEN [from |-> "ollama", found |-> ans.found,
        confidence |-> IF op = "recognizeUser" THEN ans.confidence ELSE 0,
        tagged |-> ans.text]
  ELSE [from |-> "ollama", found |-> FALSE, confidence |-> 0, tagged |-> FALSE]

\* claudeService.recognizeUser / analyzeRegistrationImage up to the Claude request
ClaudeStart(op, noUsers) ==
  /\ visPc = "idle"
  /\ visOp' = op
  /\ visClaudeFailed' = FALSE
  /\ visOllamaUp' = FALSE
  /\ visOllamaFailed' = FALSE
  /\ IF op = "recognizeUser" /\ noUsers
     THEN /\ visPc' = "idle"
          /\ visCalls' = <<>>
          /\ visResult' = [from |-> "guard", found |-> FALSE, confidence |-> 0,
                           tagged |-> FALSE]
     ELSE /\ visPc' = "claude"
          /\ visCalls' = <<"claude">>
          /\ UNCHANGED visResult

\* the await of anthropic.messages.create and the parse of its answer
ClaudeAnswer(ans) ==
  /\ visPc = "claude"
  /\ IF ans.kind = "json"
     THEN /\ visPc' = "idle"
          /\ visResult' = [from |-> "claude", found |-> ans.found,
                           confidence |-> IF visOp = "recognizeUser"
                                          THEN ans.confidence ELSE 0,
                           tagged |-> FALSE]
          /\ UNCHANGED <<visCalls, visClaudeFailed>>
     ELSE /\ visPc' = "check"
          /\ visClaudeFailed' = TRUE
          /\ visCalls' = Append(visCalls, "checkConnection")
          /\ UNCHANGED visResult
  /\ UNCHANGED <<visOp, visOllamaUp, visOllamaFailed>>

\* variant: the connection check is not looked at
CheckConnectionDone_IgnoreResult(up) ==
  /\ visPc = "check"
  /\ visOllamaUp' = up
  /\ visPc' = "ollama"
  /\ visCalls' = Append(visCalls, "ollama")
  /\ UNCHANGED <<visOp, visClaudeFailed, visOllamaFailed, visResult>>

\* the await of ollamaService.checkConnection (it never rejects)
CheckConnectionDone(up) ==
  /\ visPc = "check"
  /\ visOllamaUp' = up
  /\ IF up
     THEN /\ visPc' = "ollama"
          /\ visCalls' = Append(visCalls, "ollama")
          /\ UNCHANGED visResult
     ELSE /\ visPc' = "idle"
          /\ visResult' = DefaultResult
          /\ UNCHANGED visCalls
  /\ UNCHANGED <<visOp, visClaudeFailed, visOllamaFailed>>

\* the await of ollamaService.recognizeUser / detectFaceForRegistration
OllamaAnswer(ans) ==
  /\ visPc = "ollama"
  /\ visPc' = "idle"
  /\ visOllamaFailed' = (ans.kind = "fail")
  /\ visResult' = ollamaResult(visOp, ans)
  /\ UNCHANGED <<visOp, visCalls, visClaudeFailed, visOllamaUp>>

\* ---- geminiService, emotionService, securityService (Claude)
SvcOps == {"recognizeUser", "analyzeRegistrationImage", "analyzeEmotion",
           "checkLiveness", "detectSpoof"}

\* what the provider does with a request: the request rejects, the answer
\* has no text, the text is not JSON, or it is JSON whose fields are read
\* by the function; scores are in tenths
ProviderAnswers ==
  [kind : {"reject", "noText", "badJson"}, a : {FALSE}, b : {FALSE}, c : {FALSE}, score : {0}]
    \cup [kind : {"json"}, a : BOOLEAN, b : BOOLEAN, c : BOOLEAN, score : {0, 8}]

\* the literal returned by each catch block
NeutralResult == [thrown |-> FALSE, positive |-> FALSE, confidence |-> 0]

\* the value each function builds from a parsed answer
parsedResult(op, ans) ==
  CASE op = "recognizeUser" ->
         \* matchFound, confidence
         [thrown |-> FALSE, positive |-> ans.a, confidence |-> ans.score]
    [] op = "analyzeRegistrationImage" ->
         \* faceDetected
         [thrown |-> FALSE, positive |-> ans.a, confidence |-> 0]
    [] op = "analyzeEmotion" ->
         \* primary is not 'neutral', confidence
         [thrown |-> FALSE, positive |-> ans.a, confidence |-> ans.score]
    [] op = "checkLiveness" ->
         \* passed = (blink || movement) && appears3D && livenessScore > 0.5
         [thrown |-> FALSE, positive |-> (ans.a \/ ans.b) /\ ans.c /\ ans.score > 5,
          confidence |-> ans.score]
    [] op = "detectSpoof" ->
         \* passed = !(print || screen || spoofConfidence > 0.7) && naturalTexture
         [thrown |-> FALSE, positive |-> ~(ans.a \/ ans.b \/ ans.score > 7) /\ ans.c,
          confidence |-> IF ans.c THEN 8 ELSE 2]

\* the function up to its provider request; checkLiveness throws inside its
\* try when fewer than 2 frames are given
SvcStart(op, frames) ==
  /\ svcPc = "idle"
  /\ svcOp' = op
  /\ svcFrames' = frames
  /\ IF op = "checkLiveness" /\ frames < 2
     THEN /\ svcPc' = "idle"
          /\ svcContacted' = FALSE
          /\ svcFailed' = TRUE
          /\ svcResult' = NeutralResult
     ELSE /\ svcPc' = "await"
          /\ svcContacted' = TRUE
          /\ svcFailed' = FALSE
          /\ UNCHANGED svcResult

\* variant: the catch block rethrows
SvcAnswer_Rethrow(ans) ==
  /\ svcPc = "await"
  /\ svcPc' = "idle"
  /\ svcFailed' = (ans.kind # "json")
  /\ svcResult' = IF ans.kind = "json" THEN parsedResult(svcOp, ans)
                  ELSE [thrown |-> TRUE, positive |-> FALSE, confidence |-> 0]
  /\ UNCHANGED <<svcOp, svcFrames, svcContacted>>

\* the await of the provider request, the parse and the catch block
SvcAnswer(ans) ==
  /\ svcPc = "await"
  /\ svcPc' = "idle"
  /\ svcFailed' = (ans.kind # "json")
  /\ svcResult' = IF ans.kind = "json" THEN parsedResult(svcOp, ans)
                  ELSE NeutralResult
  /\ UNCHANGED <<svcOp, svcFrames, svcContacted>>

VisFrame == UNCHANGED <<appVars, logVars, convVars, chatVars, probeVars, voiceVars, compVars>>

VisionNext ==
  \/ (\E op \in {"recognizeUser", "analyzeRegistrationImage"} :
        \E noUsers \in BOOLEAN : ClaudeStart(op, noUsers)) /\ VisFrame /\ UNCHANGED callVars
  \/ (\E ans \in VisionAnswers : ClaudeAnswer(ans)) /\ VisFrame /\ UNCHANGED callVars
  \/ (\E up \in BOOLEAN : CheckConnectionDone(up)) /\ VisFrame /\ UNCHANGED callVars
  \/ (\E ans \in VisionAnswers : OllamaAnswer(ans)) /\ VisFrame /\ UNCHANGED callVars
  \/ (\E op \in SvcOps : \E n \in 0..MaxFrames : SvcStart(op, n))
       /\ VisFrame /\ UNCHANGED visVars
  \/ (\E ans \in ProviderAnswers : SvcAnswer(ans)) /\ VisFrame /\ UNCHANGED visVars

VisionSpec == Init /\ [][VisionNext]_vars

\* ---------------------------------------------------------- ProbeSpec
\* visionPipeline line 45: the flag is kept for 10000 ms
CacheMs == 10000
\* line 51: the health request is aborted after 1000 ms; also the clock step
TimeoutMs == 1000

\* variant: forceCheck is not looked at
isServerAvailable_IgnoreForce(c, forceCheck) ==
  /\ probeCalls[c].pc = "idle"
  /\ IF clock - lastServerCheck < CacheMs
     THEN /\ probeRet' = [probeRet EXCEPT ![c] = [value |-> serverAvailable, cached |-> TRUE]]
          /\ UNCHANGED <<probeCalls, healthRequests>>
     ELSE /\ healthRequests < MaxProbes
          /\ healthRequests' = healthRequests + 1
          /\ probeCalls' = [probeCalls EXCEPT
                              ![c] = [pc |-> "await", now |-> clock, issuedAt |-> clock]]
          /\ UNCHANGED probeRet
  /\ UNCHANGED <<clock, serverUp, serverAvailable, lastServerCheck, storedProbe>>

\* isServerAvailable lines 43-55: up to the await of the health request
isServerAvailable(c, forceCheck) ==
  /\ probeCalls[c].pc = "idle"
  /\ IF ~forceCheck /\ clock - lastServerCheck < CacheMs
     THEN /\ probeRet' = [probeRet EXCEPT ![c] = [value |-> serverAvailable, cached |-> TRUE]]
          /\ UNCHANGED <<probeCalls, healthRequests>>
     ELSE /\ healthRequests < MaxProbes
          /\ healthRequests' = healthRequests + 1
          /\ probeCalls' = [probeCalls EXCEPT
                              ![c] = [pc |-> "await", now |-> clock, issuedAt |-> clock]]
          /\ UNCHANGED probeRet
  /\ UNCHANGED <<clock, serverUp, serverAvailable, lastServerCheck, storedProbe>>

\* what the health request ends with
HealthOutcomes == {"running", "otherStatus", "httpError", "rejected", "timeout"}

\* lines 56-69: the request ended; the flag and the time of the call are stored
HealthDone(c, outcome) ==
  /\ probeCalls[c].pc = "await"
  /\ outcome \in {"running", "otherStatus", "httpError"} => serverUp
  /\ outcome = "timeout" <=> clock - probeCalls[c].issuedAt >= TimeoutMs
  /\ serverAvailable' = (outcome = "running")
  /\ lastServerCheck' = probeCalls[c].now
  /\ storedProbe' = [any |-> TRUE, issuedAt |-> probeCalls[c].issuedAt,
                     outcome |-> outcome]
  /\ probeRet' = [probeRet EXCEPT ![c] = [value |-> serverAvailable', cached |-> FALSE]]
  /\ probeCalls' = [probeCalls EXCEPT ![c].pc = "idle"]
  /\ UNCHANGED <<clock, serverUp, healthRequests>>

\* time passes; a request that reached its timeout is aborted first
ClockTick ==
  /\ clock < StartMs + MaxTicks * TimeoutMs
  /\ \A c \in ProbeCallers :
       probeCalls[c].pc = "await" => clock - probeCalls[c].issuedAt < TimeoutMs
  /\ clock' = clock + TimeoutMs
  /\ UNCHANGED <<serverUp, serverAvailable, lastServerCheck, probeCalls, probeRet,
                 healthRequests, storedProbe>>

\* the vision server is started or stopped
ServerToggle ==
  /\ serverUp' = ~serverUp
  /\ UNCHANGED <<clock, serverAvailable, lastServerCheck, probeCalls, probeRet,
                 healthRequests, storedProbe>>

ProbeFrame == UNCHANGED <<appVars, logVars, convVars, chatVars, visVars, callVars, voiceVars, compVars>>

ProbeNext ==
  \/ (\E c \in ProbeCallers : \E f \in BOOLEAN : isServerAvailable(c, f)) /\ ProbeFrame
  \/ (\E c \in ProbeCallers : \E o \in HealthOutcomes : HealthDone(c, o)) /\ ProbeFrame
  \/ ClockTick /\ ProbeFrame
  \/ ServerToggle /\ ProbeFrame

ProbeSpec == Init /\ [][ProbeNext]_vars

\* ---------------------------------------------------------- VoiceSpec
\* The push-to-talk VoiceAssistant the App renders: a transcript is parsed
\* by voiceService.parseCommand and dispatched to the App's callbacks.
\* Transcripts and patterns are sequences of characters.
UpperCase == <<"A", "B", "C", "D", "E", "F", "G", "H", "I", "J", "K", "L", "M", "N", "O", "P", "Q", "R", "S", "T", "U", "V", "W", "X", "Y", "Z">>
LowerCase == <<"a", "b", "c", "d", "e", "f", "g", "h", "i", "j", "k", "l", "m", "n", "o", "p", "q", "r", "s", "t", "u", "v", "w", "x", "y", "z">>

\* String.prototype.toLowerCase
toLowerCase(t) ==
  [i \in 1..Len(t) |->
     IF \E k \in 1..26 : UpperCase[k] = t[i]
     THEN LowerCase[CHOOSE k \in 1..26 : UpperCase[k] = t[i]]
     ELSE t[i]]

\* String.prototype.includes
includes(t, p) ==
  \E i \in 0..(Len(t) - Len(p)) : SubSeq(t, i + 1, i + Len(p)) = p

\* the if / else-if chain of parseCommand, in the order of the code
CommandPatterns == <<
  [command |-> "wake_word",
   patterns |-> {<<"h", "e", "l", "l", "o", " ", "g", "e", "m", "m", "a">>,
                 <<"h", "e", "l", "l", "o", " ", "j", "e", "m", "m", "a">>,
                 <<"h", "e", "y", " ", "g", "e", "m", "m", "a">>}],
  [command |-> "register_user",
   patterns |-> {<<"r", "e", "g", "i", "s", "t", "e", "r">>,
                 <<"n", "e", "w", " ", "u", "s", "e", "r">>}],
  [command |-> "capture_image",
   patterns |-> {<<"c", "a", "p", "t", "u", "r", "e">>,
                 <<"t", "a", "k", "e", " ", "p", "h", "o", "t", "o">>}],
  [command |-> "start_recognition",
   patterns |-> {<<"m", "o", "n", "i", "t", "o", "r">>,
                 <<"s", "t", "a", "r", "t", " ", "r", "e", "c", "o", "g", "n", "i", "t", "i", "o", "n">>}],
  [command |-> "stop_recognition",
   patterns |-> {<<"s", "t", "o", "p">>,
                 <<"p", "a", "u", "s", "e">>}],
  [command |-> "open_settings",
   patterns |-> {<<"s", "e", "t", "t", "i", "n", "g", "s">>,
                 <<"p", "r", "e", "f", "e", "r", "e", "n", "c", "e", "s">>}],
  [command |-> "confirm",
   patterns |-> {<<"y", "e", "s">>,
                 <<"c", "o", "n", "f", "i", "r", "m">>}],
  [command |-> "cancel",
   patterns |-> {<<"n", "o">>,
                 <<"c", "a", "n", "c", "e", "l">>}],
  [command |-> "describe_scene",
   patterns |-> {<<"w", "h", "a", "t", " ", "d", "o", " ", "y", "o", "u", " ", "s", "e", "e">>,
                 <<"d", "e", "s", "c", "r", "i", "b", "e">>,
                 <<"w", "h", "a", "t", " ", "i", "s", " ", "t", "h", "i", "s">>,
                 <<"l", "o", "o", "k", " ", "a", "t">>}],
  [command |-> "detect_object",
   patterns |-> {<<"i", "s", " ", "t", "h", "e", "r", "e", " ", "a">>,
                 <<"d", "o", " ", "y", "o", "u", " ", "s", "e", "e", " ", "a">>,
                 <<"c", "a", "n", " ", "y", "o", "u", " ", "s", "e", "e", " ", "a">>}],
  [command |-> "count_people",
   patterns |-> {<<"h", "o", "w", " ", "m", "a", "n", "y", " ", "p", "e", "o", "p", "l", "e">>,
                 <<"c", "o", "u", "n", "t", " ", "p", "e", "o", "p", "l", "e">>,
                 <<"h", "o", "w", " ", "m", "a", "n", "y", " ", "p", "e", "r", "s", "o", "n", "s">>}],
  [command |-> "begin_detection",
   patterns |-> {<<"b", "e", "g", "i", "n", " ", "d", "e", "t", "e", "c", "t", "i", "o", "n">>,
                 <<"s", "t", "a", "r", "t", " ", "d", "e", "t", "e", "c", "t", "i", "o", "n">>,
                 <<"b", "e", "g", "i", "n", " ", "s", "c", "a", "n", "n", "i", "n", "g">>}],
  [command |-> "stop_detection",
   patterns |-> {<<"s", "t", "o", "p", " ", "d", "e", "t", "e", "c", "t", "i", "o", "n">>,
                 <<"e", "n", "d", " ", "d", "e", "t", "e", "c", "t", "i", "o", "n">>,
                 <<"s", "t", "o", "p", " ", "s", "c", "a", "n", "n", "i", "n", "g">>}] >>

RECURSIVE firstCommand(_, _)
firstCommand(lower, k) ==
  IF k > Len(CommandPatterns) THEN "chat"
  ELSE IF \E p \in CommandPatterns[k].patterns : includes(lower, p)
  THEN CommandPatterns[k].command
  ELSE firstCommand(lower, k + 1)

\* voiceService.parseCommand(transcript).command
parseCommand(transcript) == firstCommand(toLowerCase(transcript), 1)

\* what the speech recogniser can hand to the assistant: the commands of
\* the README table and the spoken forms of the App's buttons
T_BeginDetections == <<"B", "e", "g", "i", "n", " ", "d", "e", "t", "e", "c", "t", "i", "o", "n", "s">>
T_StopDetections == <<"S", "t", "o", "p", " ", "d", "e", "t", "e", "c", "t", "i", "o", "n", "s">>
T_WhatDoYouSee == <<"W", "h", "a", "t", " ", "d", "o", " ", "y", "o", "u", " ", "s", "e", "e", "?">>
T_HowManyPeople == <<"H", "o", "w", " ", "m", "a", "n", "y", " ", "p", "e", "o", "p", "l", "e", "?">>
T_IsAnyoneSmiling == <<"I", "s", " ", "a", "n", "y", "o", "n", "e", " ", "s", "m", "i", "l", "i", "n", "g", "?">>
T_DescribeThePerson == <<"D", "e", "s", "c", "r", "i", "b", "e", " ", "t", "h", "e", " ", "p", "e", "r", "s", "o", "n">>
T_Monitor == <<"M", "o", "n", "i", "t", "o", "r">>
T_Register == <<"R", "e", "g", "i", "s", "t", "e", "r">>
T_TakePhoto == <<"T", "a", "k", "e", " ", "p", "h", "o", "t", "o">>
Transcripts == {T_BeginDetections, T_StopDetections, T_WhatDoYouSee, T_HowManyPeople, T_IsAnyoneSmiling, T_DescribeThePerson, T_Monitor, T_Register, T_TakePhoto}

\* the onCommand prop the App passes to VoiceAssistant
onCommand(cmd) ==
  IF cmd = "start_recognition" THEN EnterRecognition
  ELSE IF cmd = "stop_recognition" THEN VoiceStopRecognition
  ELSE UNCHANGED appVars        \* no case of the switch changes App state

\* startListening resolved with transcript t, then processVoiceInput(t):
\* the assistant is idle (no photo request of its own is running)
VoiceInput(t) ==
  /\ mounted
  /\ voicePc = "idle"
  /\ lastTranscript' = t
  /\ lastCommand' = parseCommand(t)
  /\ LET c == parseCommand(t) IN
     IF c = "capture_image" THEN VoiceCapture
     ELSE IF c = "register_user" THEN startRegistration
     ELSE IF c \in {"start_recognition", "stop_recognition", "open_settings",
                    "confirm", "cancel", "begin_detection", "stop_detection"}
     THEN onCommand(c)
     ELSE UNCHANGED appVars     \* spoken answer only

VoiceFrame == UNCHANGED <<logVars, convVars, chatVars, svcVars, compVars>>

VoiceNext ==
  \/ (\E t \in Transcripts : VoiceInput(t)) /\ VoiceFrame
  \/ (\E t \in armedTimers : Tick(t)) /\ AppFrame
  \/ (\E r \in pollReqs : \E ans \in RecognitionAnswers : PollRecognizeDone(r, ans)) /\ AppFrame
  \/ (\E ans \in RecognitionAnswers : VoiceRecognizeDone(ans)) /\ AppFrame
  \/ (\E n \in AppRegNames : SetRegName(n)) /\ AppFrame
  \/ validateName /\ AppFrame
  \/ captureAndRegister /\ AppFrame
  \/ (\E r \in regReqs : \E d \in Detections : RegisterDone(r, d)) /\ AppFrame

VoiceSpec == Init /\ [][VoiceNext]_vars

\* ------------------------------------------------------------ CamSpec
\* The Camera component's initialization effect (Camera.tsx 116-179).
\* Every run of the effect has its own closure variables isMounted and
\* localStream; streamRef is shared by all runs.
CurrentCycle == Len(camCycles)

\* lines 167-178: what the cleanup returned by run c leaves behind
CamCleanup(c) ==
  LET cyc == camCycles[c]
      mine == IF cyc.localStream THEN c ELSE 0      \* localStream or null
  IN [cycles |-> [camCycles EXCEPT ![c] =
                    [pc |-> IF cyc.pc = "held" THEN "stopped" ELSE cyc.pc,
                     isMounted |-> FALSE, localStream |-> cyc.localStream]],
      live |-> IF cyc.localStream THEN camLive \ {c} ELSE camLive,
      ref |-> IF streamRef = mine THEN 0 ELSE streamRef]

\* lines 120-128 and 165: startCamera of a new run up to its await
NewCycle(cycles, active) ==
  Append(cycles, [pc |-> IF active THEN "requesting" ELSE "inactive",
                  isMounted |-> TRUE, localStream |-> FALSE])

\* isActive or deviceId changed: React runs the cleanup of the previous
\* run, then the effect again
CamEffect(active) ==
  /\ camMounted
  /\ CurrentCycle < MaxEffects
  /\ camActive' = active
  /\ LET cleaned == CamCleanup(CurrentCycle) IN
       /\ camCycles' = NewCycle(cleaned.cycles, active)
       /\ camLive' = cleaned.live
       /\ streamRef' = cleaned.ref
  /\ UNCHANGED camMounted

\* the component unmounts: the cleanup of the last run
CamUnmount ==
  /\ camMounted
  /\ camMounted' = FALSE
  /\ LET cleaned == CamCleanup(CurrentCycle) IN
       /\ camCycles' = cleaned.cycles
       /\ camLive' = cleaned.live
       /\ streamRef' = cleaned.ref
  /\ UNCHANGED camActive

\* mutant: the continuation does not test isMounted
GetUserMediaDone_NoRaceCheck(c, ok) ==
  /\ c \in 1..Len(camCycles)
  /\ camCycles[c].pc = "requesting"
  /\ IF ok
     THEN /\ camCycles' = [camCycles EXCEPT ![c] =
               [pc |-> "held", isMounted |-> @.isMounted, localStream |-> TRUE]]
          /\ camLive' = camLive \cup {c}
          /\ streamRef' = c
     ELSE /\ camCycles' = [camCycles EXCEPT ![c].pc = "failed"]
          /\ UNCHANGED <<camLive, streamRef>>
  /\ UNCHANGED <<camMounted, camActive>>

\* lines 130-162: the continuation of run c after await getUserMedia
GetUserMediaDone(c, ok) ==
  /\ c \in 1..Len(camCycles)
  /\ camCycles[c].pc = "requesting"
  /\ IF ok /\ ~camCycles[c].isMounted
     THEN \* the stream arrived after the cleanup: its tracks are stopped
          /\ camCycles' = [camCycles EXCEPT ![c].pc = "stoppedLate"]
          /\ UNCHANGED <<camLive, streamRef>>
     ELSE IF ok
     THEN /\ camCycles' = [camCycles EXCEPT ![c] =
               [pc |-> "held", isMounted |-> TRUE, localStream |-> TRUE]]
          /\ camLive' = camLive \cup {c}
          /\ streamRef' = c
     ELSE /\ camCycles' = [camCycles EXCEPT ![c].pc = "failed"]
          /\ UNCHANGED <<camLive, streamRef>>
  /\ UNCHANGED <<camMounted, camActive>>

CamFrame == UNCHANGED <<oldVars, pipeVars, frameVars, sessVars, wakeVars, panelVars,
                        setVars>>

CamNext ==
  \/ (\E active \in BOOLEAN : CamEffect(active)) /\ CamFrame
  \/ CamUnmount /\ CamFrame
  \/ (\E c \in 1..Len(camCycles) : \E ok \in BOOLEAN : GetUserMediaDone(c, ok)) /\ CamFrame

CamSpec == Init /\ [][CamNext]_vars

\* ----------------------------------------------------------- PipeSpec
\* visionPipeline.startContinuousAnalysis / stopAnalysis and the interval
\* callback (visionPipeline.ts 289-331).  analyzeFrame is one await of
\* the callback here; its sub-requests are the subject of FrameSpec.
pipeHistory == <<pipeRuns, pipeIgnored, pipeStopped, pipeDelivered>>

\* mutant: no isRunning test at the top of startContinuousAnalysis
startContinuousAnalysis_NoGuard ==
  /\ pipeRuns < MaxRuns
  /\ isRunning' = TRUE
  /\ pipeRuns' = pipeRuns + 1
  /\ pipeIgnored' = FALSE
  /\ \E c \in ProbeCallers : isServerAvailable(c, TRUE)
  /\ LET id == FreshTimer(pipeTimers) IN
       /\ analysisInterval' = id
       /\ pipeTimers' = pipeTimers \cup {[id |-> id, run |-> pipeRuns + 1]}
  /\ UNCHANGED <<pipeStopped, pipeCalls, pipeDelivered>>

\* lines 289-319: warn and return while running; otherwise set the flag,
\* issue the forced health check and arm the interval
startContinuousAnalysis ==
  IF isRunning
  THEN /\ pipeIgnored' = TRUE
       /\ UNCHANGED <<isRunning, analysisInterval, pipeTimers, pipeRuns,
                      pipeStopped, pipeCalls, pipeDelivered, probeVars>>
  ELSE /\ pipeRuns < MaxRuns
       /\ isRunning' = TRUE
       /\ pipeRuns' = pipeRuns + 1
       /\ pipeIgnored' = FALSE
       /\ \E c \in ProbeCallers : isServerAvailable(c, TRUE)
       /\ LET id == FreshTimer(pipeTimers) IN
            /\ analysisInterval' = id
            /\ pipeTimers' = pipeTimers \cup {[id |-> id, run |-> pipeRuns + 1]}
       /\ UNCHANGED <<pipeStopped, pipeCalls, pipeDelivered>>

\* lines 324-331
stopAnalysis ==
  /\ isRunning' = FALSE
  /\ pipeTimers' = IF analysisInterval # 0
                   THEN clearInterval(pipeTimers, analysisInterval) ELSE pipeTimers
  /\ analysisInterval' = 0
  /\ pipeStopped' = pipeStopped \cup (IF isRunning THEN {pipeRuns} ELSE {})
  /\ UNCHANGED <<pipeRuns, pipeIgnored, pipeCalls, pipeDelivered, probeVars>>

\* lines 306-310: interval t fires; the callback runs up to await captureCallback()
PipeTick(t) ==
  /\ t \in pipeTimers
  /\ isRunning
  /\ Cardinality(pipeCalls) < MaxPipeInFlight
  /\ pipeCalls' = pipeCalls \cup
       {[id |-> FreshReq(pipeCalls), run |-> t.run, pc |-> "capture"]}
  /\ UNCHANGED <<isRunning, analysisInterval, pipeTimers, pipeHistory, probeVars>>

\* lines 310-312: captureCallback resolved with a frame, with null, or rejected
PipeCaptureDone(q, image) ==
  /\ q \in pipeCalls
  /\ q.pc = "capture"
  /\ pipeCalls' = IF image
                  THEN (pipeCalls \ {q}) \cup {[id |-> q.id, run |-> q.run, pc |-> "analyze"]}
                  ELSE pipeCalls \ {q}
  /\ UNCHANGED <<isRunning, analysisInterval, pipeTimers, pipeHistory, probeVars>>

\* lines 312-317: analyzeFrame resolved (onResult is called) or rejected
PipeAnalyzeDone(q, ok) ==
  /\ q \in pipeCalls
  /\ q.pc = "analyze"
  /\ pipeCalls' = pipeCalls \ {q}
  /\ pipeDelivered' = IF ok
                      THEN pipeDelivered \cup {[run |-> q.run, late |-> q.run \in pipeStopped]}
                      ELSE pipeDelivered
  /\ UNCHANGED <<isRunning, analysisInterval, pipeTimers, pipeRuns, pipeIgnored,
                 pipeStopped, probeVars>>

\* the forced health check of a start comes back
PipeHealthDone(c, o) == HealthDone(c, o) /\ UNCHANGED pipeVars

PipeFrame == UNCHANGED <<appVars, logVars, convVars, chatVars, visVars, callVars,
                         voiceVars, camVars, frameVars, sessVars, wakeVars,
                         panelVars, setVars>>

PipeNext ==
  \/ startContinuousAnalysis /\ PipeFrame
  \/ stopAnalysis /\ PipeFrame
  \/ (\E t \in pipeTimers : PipeTick(t)) /\ PipeFrame
  \/ (\E q \in pipeCalls : \E image \in BOOLEAN : PipeCaptureDone(q, image)) /\ PipeFrame
  \/ (\E q \in pipeCalls : \E ok \in BOOLEAN : PipeAnalyzeDone(q, ok)) /\ PipeFrame
  \/ (\E c \in ProbeCallers : \E o \in HealthOutcomes : PipeHealthDone(c, o)) /\ PipeFrame

PipeSpec == Init /\ [][PipeNext]_vars

\* ---------------------------------------------------------- FrameSpec
\* One visionPipeline.analyzeFrame call (visionPipeline.ts 89-284) with
\* the two sub-requests that write result.description.  Object detection
\* and people counting write other fields and are left out.
FrameOptions == [describeScene : BOOLEAN, customQuestion : BOOLEAN]

\* lines 93-94: the call starts and awaits isServerAvailable()
analyzeFrame(opts) ==
  /\ afPc = "idle"
  /\ \E c \in ProbeCallers : isServerAvailable(c, FALSE) /\ afCaller' = c
  /\ afPc' = "server"
  /\ afOpts' = opts
  /\ afBackend' = "none"
  /\ afSubs' = [scene |-> "none", question |-> "none"]
  /\ afDescription' = <<>>
  /\ UNCHANGED lastResult

\* the health request of the awaited isServerAvailable call ends
FrameHealthDone(c, o) == HealthDone(c, o) /\ UNCHANGED frameVars

\* lines 94-95: isServerAvailable resolved; await isMoondreamAvailable()
AfServerKnown ==
  /\ afPc = "server"
  /\ probeCalls[afCaller].pc = "idle"
  /\ afPc' = "moondream"
  /\ afBackend' = IF probeRet[afCaller].value THEN "server" ELSE "none"
  /\ UNCHANGED <<afCaller, afOpts, afSubs, afDescription, lastResult, probeVars>>

\* lines 95-277: isMoondreamAvailable resolved; the sub-requests the
\* options ask for are started, each up to its first await
AfSubsStart(moondreamAvailable) ==
  /\ afPc = "moondream"
  /\ afPc' = "subs"
  /\ afBackend' = IF afBackend = "server" THEN "server"
                  ELSE IF moondreamAvailable THEN "moondream" ELSE "gemma"
  /\ afSubs' = [scene |-> IF afOpts.describeScene THEN "pending" ELSE "none",
                question |-> IF afOpts.customQuestion THEN "pending" ELSE "none"]
  /\ UNCHANGED <<afCaller, afOpts, afDescription, lastResult, probeVars>>

\* lines 111-137: the scene request ends; the description is assigned
AfSceneDone(ok) ==
  /\ afPc = "subs"
  /\ afSubs.scene = "pending"
  /\ afSubs' = [afSubs EXCEPT !.scene = IF ok THEN "ok" ELSE "failed"]
  /\ afDescription' = IF ok THEN <<"scene">> ELSE <<"Analysis failed">>
  /\ UNCHANGED <<afPc, afCaller, afOpts, afBackend, lastResult, probeVars>>

\* lines 245-273: the question request ends; the answer becomes the
\* description if there is none yet and is appended to it otherwise
AfQuestionDone(ok) ==
  /\ afPc = "subs"
  /\ afSubs.question = "pending"
  /\ afSubs' = [afSubs EXCEPT !.question = IF ok THEN "ok" ELSE "failed"]
  /\ afDescription' = IF ~ok THEN afDescription
                      ELSE IF afDescription = <<>> THEN <<"answer">>
                      ELSE Append(afDescription, "answer")
  /\ UNCHANGED <<afPc, afCaller, afOpts, afBackend, lastResult, probeVars>>

\* lines 277-284: Promise.all resolved; lastResult is set and returned
AfReturn ==
  /\ afPc = "subs"
  /\ afSubs.scene # "pending" /\ afSubs.question # "pending"
  /\ afPc' = "done"
  /\ lastResult' = afDescription
  /\ UNCHANGED <<afCaller, afOpts, afBackend, afSubs, afDescription, probeVars>>

\* the caller has taken the result
AfTaken ==
  /\ afPc = "done"
  /\ afPc' = "idle"
  /\ UNCHANGED <<afCaller, afOpts, afBackend, afSubs, afDescription, lastResult,
                 probeVars>>

FrameFrame == UNCHANGED <<appVars, logVars, convVars, chatVars, visVars, callVars,
                          voiceVars, camVars, pipeVars, sessVars, wakeVars,
                          panelVars, setVars>>

FrameNext ==
  \/ (\E opts \in FrameOptions : analyzeFrame(opts)) /\ FrameFrame
  \/ (\E c \in ProbeCallers : \E o \in HealthOutcomes : FrameHealthDone(c, o)) /\ FrameFrame
  \/ AfServerKnown /\ FrameFrame
  \/ (\E m \in BOOLEAN : AfSubsStart(m)) /\ FrameFrame
  \/ (\E ok \in BOOLEAN : AfSceneDone(ok)) /\ FrameFrame
  \/ (\E ok \in BOOLEAN : AfQuestionDone(ok)) /\ FrameFrame
  \/ AfReturn /\ FrameFrame
  \/ AfTaken /\ FrameFrame

FrameSpec == Init /\ [][FrameNext]_vars

\* ----------------------------------------------------------- SessSpec
\* The push-to-talk session of VoiceAssistant await by await
\* (VoiceAssistant.tsx 29-169, voiceService.startListening).  VoiceInput
\* above is the same code with the awaits of a session taken as one step.
OnCommandNames == {"start_recognition", "stop_recognition", "open_settings",
                   "confirm", "cancel", "begin_detection", "stop_detection"}

\* the awaits of processVoiceInput for a command, lines 65-146
Plan(c) ==
  IF c = "capture_image" THEN <<"respond", "capture", "recognize", "respond">>
  ELSE IF c \in {"describe_scene", "detect_object", "count_people"}
  THEN <<"respond", "capture", "vision", "respond">>
  ELSE IF c = "chat" THEN <<"generate", "respond">>
  ELSE IF c = "confirm" THEN <<>>
  ELSE <<"respond">>

\* respond() sets 'speaking' before its await (line 157)
StateAt(plan, st) == IF plan # <<>> /\ Head(plan) = "respond" THEN "speaking" ELSE st

\* mutant: startListening without its guard
startListening_NoGuard ==
  /\ mounted
  /\ vaListening < 2
  /\ isListeningRef' = TRUE
  /\ vaState' = "listening"
  /\ lastTranscript' = <<>>
  /\ vaListening' = vaListening + 1
  /\ vaFlags' = [handler |-> FALSE, speech |-> FALSE]
  /\ UNCHANGED <<vaPlan, lastCommand, appVars>>

\* lines 29-37: the button is pressed; nothing happens unless idle
startListening ==
  /\ mounted
  /\ ~(isListeningRef \/ vaState # "idle")
  /\ isListeningRef' = TRUE
  /\ vaState' = "listening"
  /\ lastTranscript' = <<>>
  /\ vaListening' = vaListening + 1
  /\ vaFlags' = [handler |-> FALSE, speech |-> FALSE]
  /\ UNCHANGED <<vaPlan, lastCommand, appVars>>

\* lines 46-54: the recognition promise rejected (recognition error, or
\* the 10 s timeout of voiceService.startListening)
ListenFailed ==
  /\ vaListening > 0
  /\ vaPlan = <<>> /\ vaState = "listening"
  /\ vaListening' = vaListening - 1
  /\ isListeningRef' = FALSE
  /\ vaState' = "idle"
  /\ UNCHANGED <<vaPlan, vaFlags, voiceVars, appVars>>

\* lines 37-45 and 58-146: a transcript arrived; processVoiceInput runs
\* up to its first await
ListenDone(t) ==
  /\ vaListening > 0
  /\ vaPlan = <<>> /\ vaState = "listening"
  /\ vaListening' = vaListening - 1
  /\ isListeningRef' = FALSE
  /\ IF t = <<>>
     THEN /\ vaState' = "idle"
          /\ UNCHANGED <<vaPlan, vaFlags, voiceVars, appVars>>
     ELSE LET c == parseCommand(t) IN
          /\ lastTranscript' = t
          /\ lastCommand' = c
          /\ vaPlan' = Plan(c)
          /\ vaState' = IF Plan(c) = <<>> THEN "idle" ELSE StateAt(Plan(c), "processing")
          /\ IF c = "register_user" THEN startRegistration
             ELSE IF c \in OnCommandNames THEN onCommand(c)
             ELSE UNCHANGED appVars
          /\ UNCHANGED vaFlags

\* what is left when the await at the head of the plan is passed
Advance(plan) ==
  LET rest == Tail(plan) IN
  [plan |-> rest,
   state |-> IF rest = <<>> THEN "idle" ELSE StateAt(rest, vaState)]

\* lines 156-169: the speech output ended or failed (caught in respond)
SpeakDone(ok) ==
  /\ vaPlan # <<>> /\ Head(vaPlan) = "respond"
  /\ vaPlan' = Advance(vaPlan).plan
  /\ vaState' = Advance(vaPlan).state
  /\ vaFlags' = [vaFlags EXCEPT !.speech = @ \/ ~ok]
  /\ UNCHANGED <<isListeningRef, vaListening, voiceVars, appVars>>

\* lines 172-186, 223-231: onCaptureRequest resolved; without a frame the
\* handler apologises and returns; the photo command goes on to recognise
CaptureDone ==
  /\ vaPlan # <<>> /\ Head(vaPlan) = "capture"
  /\ IF vaPlan[2] = "recognize"
     THEN /\ VoiceCapture
          /\ vaPlan' = IF voicePc' = "recognize" THEN Tail(vaPlan) ELSE <<"respond">>
          /\ vaState' = IF voicePc' = "recognize" THEN "processing" ELSE "speaking"
     ELSE /\ \E image \in BOOLEAN :
               vaPlan' = IF image THEN Tail(vaPlan) ELSE <<"respond">>
          /\ vaState' = StateAt(vaPlan', vaState)
          /\ UNCHANGED appVars
  /\ UNCHANGED <<isListeningRef, vaListening, vaFlags, voiceVars>>

\* lines 184-195: onRecognizeRequest resolved or rejected
RecognizeDone(ans) ==
  /\ vaPlan # <<>> /\ Head(vaPlan) = "recognize"
  /\ VoiceRecognizeDone(ans)
  /\ vaPlan' = Advance(vaPlan).plan
  /\ vaState' = Advance(vaPlan).state
  /\ vaFlags' = [vaFlags EXCEPT !.handler = @ \/ ans.kind = "throw"]
  /\ UNCHANGED <<isListeningRef, vaListening, voiceVars>>

\* lines 198-209, 216-233: the Ollama / vision request of the handler
\* resolved or rejected (caught, then an apology is spoken)
HandlerDone(ok) ==
  /\ vaPlan # <<>> /\ Head(vaPlan) \in {"vision", "generate"}
  /\ vaPlan' = Advance(vaPlan).plan
  /\ vaState' = Advance(vaPlan).state
  /\ vaFlags' = [vaFlags EXCEPT !.handler = @ \/ ~ok]
  /\ UNCHANGED <<isListeningRef, vaListening, voiceVars, appVars>>

SessFrame == UNCHANGED <<logVars, convVars, chatVars, svcVars, camVars, pipeVars,
                         frameVars, wakeVars, panelVars, setVars>>

\* the continuations of a session
SessStep ==
  \/ ListenFailed /\ SessFrame
  \/ (\E t \in Transcripts \cup {<<>>} : ListenDone(t)) /\ SessFrame
  \/ (\E ok \in BOOLEAN : SpeakDone(ok)) /\ SessFrame
  \/ CaptureDone /\ SessFrame
  \/ (\E ans \in RecognitionAnswers : RecognizeDone(ans)) /\ SessFrame
  \/ (\E ok \in BOOLEAN : HandlerDone(ok)) /\ SessFrame

SessNext ==
  \/ startListening /\ SessFrame
  \/ SessStep

SessSpec == Init /\ [][SessNext]_vars

\* the recognition promise settles (at the latest by its 10 s timeout),
\* and so do the requests and the speech output a handler awaits
FairSessSpec == SessSpec /\ WF_vars(SessStep)

\* ----------------------------------------------------------- WakeSpec
\* The wake-word VoiceAssistant (VoiceAssistant.tsx 389-469) with
\* voiceService.startWakeWordListening / stopWakeWordListening
\* (emotionService.ts 172-232).
\* startWakeWordListening: a new continuous recognition is started
startWakeWordListening(recs) == recs \cup {recsCreated + 1}

\* stopWakeWordListening(rec): no-op for null, else no restart and stop
stopWakeWordListening(recs, rec) == IF rec = 0 THEN recs ELSE recs \ {rec}

\* lines 403-419
toggleWakeWordListening ==
  /\ IF isWakeWordActive
     THEN /\ wakeRecs' = stopWakeWordListening(wakeRecs, recognitionRef)
          /\ recognitionRef' = 0
          /\ isWakeWordActive' = FALSE
          /\ wwState' = "idle"
          /\ wwToggledOff' = TRUE
          /\ UNCHANGED recsCreated
     ELSE /\ recsCreated < MaxRecs
          /\ wakeRecs' = startWakeWordListening(wakeRecs)
          /\ recognitionRef' = recsCreated + 1
          /\ recsCreated' = recsCreated + 1
          /\ isWakeWordActive' = TRUE
          /\ wwState' = "listening"
          /\ wwToggledOff' = FALSE
  /\ UNCHANGED <<wwPc, confirmActive>>

\* lines 422-438: a listening recognition hears the wake word;
\* handleWakeWord runs up to the await of the greeting
WakeWordHeard ==
  /\ wakeRecs # {}
  /\ wwPc = "idle"
  /\ wakeRecs' = stopWakeWordListening(wakeRecs, recognitionRef)
  /\ wwPc' = "greeting"
  /\ wwState' = "speaking"
  /\ UNCHANGED <<isWakeWordActive, recognitionRef, recsCreated, confirmActive,
                 wwToggledOff>>

\* lines 462-468: wake-word listening is resumed
Resume ==
  /\ recsCreated < MaxRecs
  /\ wakeRecs' = startWakeWordListening(wakeRecs)
  /\ recognitionRef' = recsCreated + 1
  /\ recsCreated' = recsCreated + 1
  /\ wwState' = "listening"
  /\ wwPc' = "idle"

\* lines 434-443: the greeting was spoken (then the confirmation is
\* listened for) or the speech output failed
GreetingDone(ok) ==
  /\ wwPc = "greeting"
  /\ IF ok
     THEN /\ wwPc' = "confirm"
          /\ wwState' = "awaiting_confirm"
          /\ confirmActive' = TRUE
          /\ UNCHANGED <<recognitionRef, wakeRecs, recsCreated>>
     ELSE /\ Resume
          /\ UNCHANGED confirmActive
  /\ UNCHANGED <<isWakeWordActive, wwToggledOff>>

WakeCommands == {"confirm", "cancel", "unknown", "error"}

\* lines 443-458: the answer was heard and parsed, or the recognition
\* failed or timed out ("error")
ConfirmDone(cmd) ==
  /\ wwPc = "confirm"
  /\ confirmActive' = FALSE
  /\ CASE cmd = "confirm" ->
            /\ wwPc' = "photo"
            /\ wwState' = "processing"
            /\ UNCHANGED <<recognitionRef, wakeRecs, recsCreated>>
       [] cmd = "cancel" ->
            /\ wwPc' = "cancel"
            /\ UNCHANGED <<wwState, recognitionRef, wakeRecs, recsCreated>>
       [] cmd = "unknown" ->
            /\ wwPc' = "chat"
            /\ wwState' = "processing"
            /\ UNCHANGED <<recognitionRef, wakeRecs, recsCreated>>
       [] cmd = "error" -> Resume
  /\ UNCHANGED <<isWakeWordActive, wwToggledOff>>

\* lines 472-503: handlePhotoCapture up to the outcome of the
\* recognition: a known user is greeted, an unknown one is asked whether
\* to register and the answer is listened for
PhotoDone(matchFound) ==
  /\ wwPc = "photo"
  /\ IF matchFound
     THEN /\ wwPc' = "cancel"
          /\ UNCHANGED <<wwState, confirmActive>>
     ELSE /\ wwPc' = "register"
          /\ wwState' = "awaiting_confirm"
          /\ confirmActive' = TRUE
  /\ UNCHANGED <<isWakeWordActive, recognitionRef, wakeRecs, recsCreated,
                 wwToggledOff>>

\* lines 504-526: the answer to the registration question arrived or
\* failed; the closing message is spoken next
RegisterAnswerDone ==
  /\ wwPc = "register"
  /\ confirmActive' = FALSE
  /\ wwPc' = "cancel"
  /\ UNCHANGED <<wwState, isWakeWordActive, recognitionRef, wakeRecs,
                 recsCreated, wwToggledOff>>

\* lines 448-468: the handler of the answer (closing message, capture
\* failure or chat reply) ended or failed
WakeHandlerDone ==
  /\ wwPc \in {"photo", "cancel", "chat"}
  /\ Resume
  /\ UNCHANGED <<isWakeWordActive, confirmActive, wwToggledOff>>

WakeFrame == UNCHANGED <<oldVars, camVars, pipeVars, frameVars, sessVars, panelVars,
                         setVars>>

WakeNext ==
  \/ toggleWakeWordListening /\ WakeFrame
  \/ WakeWordHeard /\ WakeFrame
  \/ (\E ok \in BOOLEAN : GreetingDone(ok)) /\ WakeFrame
  \/ (\E cmd \in WakeCommands : ConfirmDone(cmd)) /\ WakeFrame
  \/ (\E m \in BOOLEAN : PhotoDone(m)) /\ WakeFrame
  \/ RegisterAnswerDone /\ WakeFrame
  \/ WakeHandlerDone /\ WakeFrame

WakeSpec == Init /\ [][WakeNext]_vars

\* ---------------------------------------------------------- PanelSpec
\* OfflineModePanel (part_004) over conversationService's stored flag
\* (offlineMode), ollamaService.checkConnection (ollamaReachable) and
\* localLLMService.initTextGenerationModel (textGenerationModel).
\* what the panel's handlers leave alone outside the panel
PanelKeep ==
  UNCHANGED <<appVars, logVars, convVars, svcVars, voiceVars, camVars, pipeVars,
              frameVars, sessVars, wakeVars, setVars, chatPc, chatUser, chatForce,
              chatModeAtCall, chatOfflineEnabled, chatCalls, chatOnlineThrew,
              chatResult, chatAppended, ollamaReachable, llmPc, llmCalls,
              llmStatus, llmOllamaFailed, llmGpt2Failed, llmReachableAtGpt2,
              llmResult>>

\* lines 20-24: checkOllama learns whether the server answers
MountConnectionDone ==
  /\ mountPc = "check"
  /\ ollamaStatus' = IF ollamaReachable THEN "connected" ELSE "disconnected"
  /\ mountPc' = IF ollamaReachable THEN "model" ELSE "done"
  /\ UNCHANGED <<panelOfflineMode, isModelLoading, modelStatus, activeModel,
                 togglePc, retryPending, lastLoad>>
  /\ UNCHANGED <<offlineMode, textGenerationModel, ollamaAvailable,
                 llmFailedNoReset>>

\* lines 25-31: checkOllama learns whether the model is installed
MountModelDone(hasModel) ==
  /\ mountPc = "model"
  /\ mountPc' = "done"
  /\ activeModel' = IF hasModel THEN "ollama" ELSE activeModel
  /\ modelStatus' = IF hasModel THEN "ready" ELSE modelStatus
  /\ UNCHANGED <<panelOfflineMode, isModelLoading, ollamaStatus, togglePc,
                 retryPending, lastLoad>>
  /\ UNCHANGED <<offlineMode, textGenerationModel, ollamaAvailable,
                 llmFailedNoReset>>

\* lines 69-71 and 79-81: setOfflineMode(v); conversationService.setOfflineMode(v)
PanelSetOffline(enabled) ==
  /\ panelOfflineMode' = enabled
  /\ offlineMode' = enabled

\* lines 50-54, 78-83 with the button of lines 180-181: the toggle is
\* clicked, handleToggleOfflineMode(!offlineMode) up to its first await
handleToggleOfflineMode ==
  /\ ~isModelLoading
  /\ LET enabled == ~panelOfflineMode IN
     IF enabled /\ modelStatus = "not_loaded"
     THEN /\ isModelLoading' = TRUE
          /\ modelStatus' = "loading"
          /\ togglePc' = "check"
          /\ lastLoad' = "none"
          /\ UNCHANGED <<panelOfflineMode, offlineMode>>
     ELSE /\ PanelSetOffline(enabled)
          /\ lastLoad' = "none"
          /\ UNCHANGED <<isModelLoading, modelStatus, togglePc>>
  /\ UNCHANGED <<ollamaStatus, activeModel, mountPc, retryPending>>
  /\ UNCHANGED <<textGenerationModel, ollamaAvailable, llmFailedNoReset>>

\* lines 57-62, 69-71, 75-77: checkConnection answered
ToggleConnectionDone ==
  /\ togglePc = "check"
  /\ IF ollamaReachable
     THEN /\ ollamaStatus' = "connected"
          /\ activeModel' = "ollama"
          /\ modelStatus' = "ready"
          /\ PanelSetOffline(TRUE)
          /\ isModelLoading' = FALSE
          /\ togglePc' = "idle"
          /\ lastLoad' = "ok"
     ELSE /\ togglePc' = "init"
          /\ UNCHANGED <<ollamaStatus, activeModel, modelStatus,
                         panelOfflineMode, offlineMode, isModelLoading, lastLoad>>
  /\ UNCHANGED <<mountPc, retryPending>>
  /\ UNCHANGED <<textGenerationModel, ollamaAvailable, llmFailedNoReset>>

\* lines 63-77: initTextGenerationModel resolved (also at once when the
\* model is loaded already) or threw
ToggleInitDone(ok) ==
  /\ togglePc = "init"
  /\ ok \/ ~textGenerationModel
  /\ togglePc' = "idle"
  /\ isModelLoading' = FALSE
  /\ IF ok
     THEN /\ textGenerationModel' = TRUE
          /\ activeModel' = "gpt2"
          /\ modelStatus' = "ready"
          /\ PanelSetOffline(TRUE)
          /\ lastLoad' = "ok"
     ELSE /\ modelStatus' = "error"
          /\ lastLoad' = "failed"
          /\ UNCHANGED <<textGenerationModel, activeModel, panelOfflineMode,
                         offlineMode>>
  /\ UNCHANGED <<ollamaStatus, mountPc, retryPending>>
  /\ UNCHANGED <<ollamaAvailable, llmFailedNoReset>>

\* lines 85-88 with the button of lines 155-160
handleRetryOllama ==
  /\ ollamaStatus = "disconnected"
  /\ retryPending < MaxRetries
  /\ ollamaStatus' = "checking"
  /\ ollamaAvailable' = "null"
  /\ llmFailedNoReset' = FALSE
  /\ retryPending' = retryPending + 1
  /\ UNCHANGED <<panelOfflineMode, isModelLoading, modelStatus, activeModel,
                 mountPc, togglePc, lastLoad>>
  /\ UNCHANGED <<offlineMode, textGenerationModel>>

\* lines 89-98
RetryConnectionDone ==
  /\ retryPending > 0
  /\ retryPending' = retryPending - 1
  /\ ollamaStatus' = IF ollamaReachable THEN "connected" ELSE "disconnected"
  /\ activeModel' = IF ollamaReachable THEN "ollama" ELSE activeModel
  /\ modelStatus' = IF ollamaReachable THEN "ready" ELSE modelStatus
  /\ UNCHANGED <<panelOfflineMode, isModelLoading, mountPc, togglePc, lastLoad>>
  /\ UNCHANGED <<offlineMode, textGenerationModel, ollamaAvailable,
                 llmFailedNoReset>>

PanelFrame == UNCHANGED <<appVars, logVars, svcVars, voiceVars, camVars, pipeVars,
                          frameVars, sessVars, wakeVars, panelVars, setVars>>

PanelNext ==
  \/ MountConnectionDone /\ PanelKeep
  \/ (\E m \in BOOLEAN : MountModelDone(m)) /\ PanelKeep
  \/ handleToggleOfflineMode /\ PanelKeep
  \/ ToggleConnectionDone /\ PanelKeep
  \/ (\E ok \in BOOLEAN : ToggleInitDone(ok)) /\ PanelKeep
  \/ handleRetryOllama /\ PanelKeep
  \/ RetryConnectionDone /\ PanelKeep
  \/ OllamaToggle /\ PanelFrame

PanelSpec == Init /\ [][PanelNext]_vars

\* ------------------------------------------------------- SettingsSpec
\* The settings modal (part_000 1070-1077, SettingsPanel.tsx 10-35) over
\* the recognition loop and the stored preferences.
\* storageService.getPreferences as far as emotionTracking goes, "none" = null
getPreferences(store, userId) == store[userId]

\* SettingsPanel.tsx 11-20: the state a freshly rendered panel starts with
InitialPrefs(stored) ==
  IF stored = "none"
  THEN [mounted |-> TRUE, userId |-> 0, emotionTracking |-> TRUE]
  ELSE [mounted |-> TRUE, userId |-> matchedUser', emotionTracking |-> (stored = "on")]

\* part_000 lines 1070-1077: the panel is rendered while showSettings and
\* matchedUser hold; it keeps its state for as long as it stays rendered
Rendered ==
  localPrefs' =
    IF ~(showSettings' /\ matchedUser' # 0) THEN Unmounted
    ELSE IF showSettings /\ matchedUser # 0 THEN localPrefs
    ELSE InitialPrefs(getPreferences(prefs', matchedUser'))

\* a step of the App outside the settings modal
SettingsSync ==
  /\ UNCHANGED <<showSettings, savedFor, savedValue>>
  /\ Rendered
  /\ emotionAfterOptOut' =
       (emotionAfterOptOut \/
        (savedValue = "off" /\
         \E q \in pollReqs' \ pollReqs : q.stage = "emotion" /\ q.user = savedFor))

SetKeep ==
  UNCHANGED <<appState, mounted, recognitionTimerRef, armedTimers, processingRef,
              pollReqs, voicePc, matchedUser, recognitionStatus,
              showGreetingOverlay, dismissTimers, storedUsers, emotionHistory,
              emotionSaved, regStep, regName, regReqs, switchTimers, matchStopped>>

\* part_000 line 836: the settings button
OpenSettings ==
  /\ ~showSettings
  /\ SetKeep
  /\ showSettings' = TRUE
  /\ UNCHANGED <<prefs, savedFor, savedValue, emotionAfterOptOut>>
  /\ Rendered

\* part_000 line 1075 from the close button, SettingsPanel.tsx 49-51
CloseSettings ==
  /\ showSettings
  /\ SetKeep
  /\ showSettings' = FALSE
  /\ UNCHANGED <<prefs, savedFor, savedValue, emotionAfterOptOut>>
  /\ Rendered

\* SettingsPanel.tsx 22-30 for the key emotionTracking
handleToggle ==
  /\ localPrefs.mounted
  /\ SetKeep
  /\ localPrefs' = [localPrefs EXCEPT !.emotionTracking = ~localPrefs.emotionTracking]
  /\ UNCHANGED <<prefs, showSettings, savedFor, savedValue, emotionAfterOptOut>>

\* storageService.savePreferences, part_002 lines 90-95
savePreferences(store, p) ==
  [store EXCEPT ![p.userId] = IF p.emotionTracking THEN "on" ELSE "off"]

\* SettingsPanel.tsx 32-35 with handleSavePreferences, part_000 794-797
handleSave ==
  /\ localPrefs.mounted
  /\ SetKeep
  /\ prefs' = savePreferences(prefs, localPrefs)
  /\ showSettings' = FALSE
  /\ Rendered
  /\ savedFor' = matchedUser
  /\ savedValue' = IF localPrefs.emotionTracking THEN "on" ELSE "off"
  /\ emotionAfterOptOut' = FALSE

SetFrame == UNCHANGED <<logVars, convVars, chatVars, svcVars, voiceVars, camVars,
                        pipeVars, frameVars, sessVars, wakeVars, panelVars>>

SettingsNext ==
  \/ OpenSettings /\ SetFrame
  \/ CloseSettings /\ SetFrame
  \/ handleToggle /\ SetFrame
  \/ handleSave /\ SetFrame
  \/ EnterRecognition /\ SettingsSync /\ SetFrame
  \/ VoiceStopRecognition /\ SettingsSync /\ SetFrame
  \/ (\E t \in armedTimers : Tick(t)) /\ SettingsSync /\ SetFrame
  \/ (\E r \in pollReqs : \E ans \in RecognitionAnswers : PollRecognizeDone(r, ans))
       /\ SettingsSync /\ SetFrame
  \/ (\E r \in pollReqs : PollEmotionDone(r)) /\ SettingsSync /\ SetFrame
  \/ DismissFire /\ SettingsSync /\ SetFrame
  \/ (\E n \in AppRegNames : SetRegName(n)) /\ SettingsSync /\ SetFrame
  \/ validateName /\ SettingsSync /\ SetFrame
  \/ captureAndRegister /\ SettingsSync /\ SetFrame
  \/ startRegistration /\ SettingsSync /\ SetFrame
  \/ (\E r \in regReqs : \E d \in Detections : RegisterDone(r, d))
       /\ SettingsSync /\ SetFrame
  \/ SwitchTimeout /\ SettingsSync /\ SetFrame

SettingsSpec == Init /\ [][SettingsNext]_vars

\* ------------------------------------------------------------ FairSpec
\* the continuations of the polling callback run once the provider answers;
\* a pending timeout fires
PollDone ==
  \/ (\E r \in pollReqs : \E ans \in RecognitionAnswers : PollRecognizeDone(r, ans)) /\ AppFrame
  \/ (\E r \in pollReqs : PollEmotionDone(r)) /\ AppFrame

FairSpec == Spec /\ WF_vars(PollDone) /\ WF_vars(DismissFire /\ AppFrame)

\* ============================================================== claims
\* C1: in the polling loop at most one recognition request is in flight,
\* across ticks, completions and mode switches that re-create the interval.
C1_SingleFlight == Cardinality(pollReqs) <= 1

C1_Witness ==
  /\ Cardinality(pollReqs) = 1
  /\ armedTimers # {}
  /\ storedUsers # <<>>

\* C2: once a tick has set the re-entrancy flag, the flag is eventually
\* cleared, whatever the outcome of the tick.
C2_FlagCleared == processingRef ~> ~processingRef

C2_Witness ==
  /\ processingRef
  /\ \E r \in pollReqs : r.stage = "emotion"

\* C3: after a polling match of a stored user the interval is cleared and
\* stays cleared (so no tick can issue a request) until recognition mode is
\* entered again.
C3_MatchStopsLoop == matchStopped => (armedTimers = {} /\ recognitionTimerRef = 0)

C3_Witness == matchStopped /\ mounted /\ appState = RECOGNITION

\* C4: a tick submits a request only if the app is in recognition mode and
\* no request is being processed; a tick failing either changes no state.
C4_TickGuard ==
  [][\A t \in armedTimers :
       Tick(t) =>
         /\ (pollReqs' # pollReqs \/ processingRef' # processingRef)
               => (appState = RECOGNITION /\ ~processingRef)
         /\ (appState # RECOGNITION \/ processingRef) => UNCHANGED vars]_vars

C4_Witness ==
  /\ processingRef
  /\ armedTimers # {}
  /\ appState = RECOGNITION
  /\ \E r \in pollReqs : r.stage = "recognize"

\* C5: at most one interval is armed, and none outside recognition mode or
\* after the component was torn down.
C5_OneTimer ==
  /\ Cardinality(armedTimers) <= 1
  /\ armedTimers # {} => (appState = RECOGNITION /\ mounted)
  /\ \A t \in armedTimers : t.id = recognitionTimerRef

C5_Witness ==
  /\ ~mounted
  /\ storedUsers # <<>>
  /\ pollReqs # {}
  /\ matchedUser # 0

\* C6 (as claimed): every recognition match of a stored user, from the
\* polling loop or voice-triggered, adds one to that user's interaction
\* count and sets its last-seen time, leaving the other records alone; an
\* id that is not stored changes nothing.
IsMatchStep(ans) ==
  \/ \E r \in pollReqs : PollRecognizeDone(r, ans)
  \/ VoiceRecognizeDone(ans)

C6_EveryMatchCounts ==
  [][\A ans \in RecognitionAnswers :
       (ans.kind = "match" /\ IsMatchStep(ans)) =>
         LET index == getUserById(storedUsers, ans.id) IN
         IF index = 0 THEN storedUsers' = storedUsers
         ELSE storedUsers' =
                [storedUsers EXCEPT ![index] =
                   [@ EXCEPT !.interactionCount = @ + 1,
                             !.lastSeen = Now(storedUsers)]]]_vars

\* C7 (as claimed): the greeting overlay is never hidden by a timeout left
\* over from an earlier match.
C7_OverlayOwnTimer ==
  [][(DismissFire /\ ~Head(dismissTimers))
       => ~(showGreetingOverlay /\ ~showGreetingOverlay')]_vars

\* the n most recent of the entries 1..saved, oldest first
Recent(saved, cap) ==
  LET len == IF saved < cap THEN saved ELSE cap
  IN [i \in 1..len |-> saved - len + i]

\* C8: the persisted log list holds at most 100 entries, exactly the most
\* recently added ones, newest first.
C8_LogCapped ==
  /\ Len(storedLogs) <= 100
  /\ Len(storedLogs) = Len(Recent(logSeq, 100))
  /\ \A i \in 1..Len(storedLogs) : storedLogs[i] = logSeq + 1 - i

C8_Witness == logSeq > 100 /\ Len(storedLogs) = 100

\* C9: each per-user history holds at most its cap (50 messages, 100
\* emotions), namely that user's most recent entries in the order saved;
\* a save for one user leaves the other users' histories as they were.
C9_HistoriesCapped ==
  \A u \in HistUsers :
    /\ Len(conversations[u]) <= 50
    /\ conversations[u] = Recent(msgSaved[u], 50)
    /\ Len(emotionHistory[u]) <= 100
    /\ emotionHistory[u] = Recent(emotionSaved[u], 100)

C9_Witness ==
  /\ msgSaved[1] > 50
  /\ emotionSaved[1] > 100
  /\ msgSaved[2] > 0
  /\ emotionSaved[2] > 0

\* C10: with offline mode off and forceOffline false the online provider is
\* called first and the offline one only after the online call threw; with
\* offline mode on or forceOffline true the online provider is never called;
\* usedOffline is true exactly when the text came from the offline provider.
C10_ProviderOrder ==
  /\ (chatCalls # <<>> /\ ~chatModeAtCall /\ ~chatForce) =>
        /\ chatCalls[1] = "online"
        /\ Len(chatCalls) > 1 => (chatCalls = <<"online", "offline">> /\ chatOnlineThrew)
  /\ (chatModeAtCall \/ chatForce) => chatCalls \in {<<>>, <<"offline">>}
  /\ (chatPc = "idle" /\ chatCalls # <<>>) =>
        /\ chatResult.usedOffline <=> (chatResult.text = "offline")
        /\ (chatResult.text = "offline") <=> (chatCalls[Len(chatCalls)] = "offline")

C10_Witness ==
  /\ chatPc = "idle"
  /\ chatCalls = <<"online", "offline">>
  /\ chatResult.usedOffline
  /\ offlineMode

\* C11: claudeService.recognizeUser / analyzeRegistrationImage: Ollama is
\* contacted only after the Claude request failed, its image request only
\* after its connection check succeeded; a Claude success is returned with
\* nothing else contacted; when both fail the result is no match / no face.
C11_ClaudeThenOllama ==
  /\ visCalls \in {<<>>, <<"claude">>, <<"claude", "checkConnection">>,
                   <<"claude", "checkConnection", "ollama">>}
  /\ Len(visCalls) > 1 => visClaudeFailed
  /\ Len(visCalls) > 2 => visOllamaUp
  /\ (visPc = "idle" /\ visCalls # <<>> /\ ~visClaudeFailed) =>
        (visResult.from = "claude" /\ visCalls = <<"claude">>)
  /\ (visPc = "idle" /\ visClaudeFailed /\ (~visOllamaUp \/ visOllamaFailed)) =>
        (~visResult.found /\ visResult.confidence = 0)
  /\ (visPc = "idle" /\ visClaudeFailed /\ visOllamaUp /\ ~visOllamaFailed) =>
        visResult.from = "ollama"

C11_Witness ==
  /\ visPc = "idle"
  /\ visCalls = <<"claude", "checkConnection", "ollama">>
  /\ visResult.found
  /\ visResult.tagged

InSeq(x, q) == \E i \in 1..Len(q) : q[i] = x

C14_ProcessMessageReturns ==
  /\ chatPc # "rejected"
  /\ chatPc \in {"online", "offline"} =>
        /\ chatAppended = <<"user">>
        /\ conversations[chatUser][Len(conversations[chatUser])] = msgSaved[chatUser]
  /\ (chatPc = "idle" /\ chatCalls # <<>>) =>
        /\ chatAppended = <<"user", "assistant">>
        /\ Len(conversations[chatUser]) >= 2
        /\ conversations[chatUser][Len(conversations[chatUser])] = msgSaved[chatUser]
        /\ chatResult.text \in {"online", "offline"}

C14_Witness ==
  /\ chatPc = "idle"
  /\ chatOnlineThrew
  /\ llmOllamaFailed
  /\ llmGpt2Failed
  /\ llmResult = "fixed"
  /\ chatAppended = <<"user", "assistant">>

\* C16 (as claimed): the health of Ollama is not kept between requests:
\* after Ollama failed, a local text generation started while Ollama is
\* reachable again contacts Ollama, without resetOllamaStatus being called.
C16_NoOllamaCache ==
  [][(chatPc # "offline" /\ chatPc' = "offline" /\ llmFailedNoReset /\ ollamaReachable)
       => llmPc' \in {"probe", "ollama"}]_vars

\* C13: a failure of the provider call (or fewer than 2 frames for
\* checkLiveness) is never thrown to the caller; the function returns its
\* neutral result: no match / no face / neutral emotion / not passed, with
\* confidence 0.
C13_FailuresNeutral ==
  /\ ~svcResult.thrown
  /\ (svcPc = "idle" /\ svcFailed) =>
        (~svcResult.positive /\ svcResult.confidence = 0)
  /\ (svcPc = "idle" /\ svcOp = "checkLiveness" /\ svcFrames < 2) =>
        (svcFailed /\ ~svcContacted /\ ~svcResult.positive)

C13_Witness ==
  /\ svcPc = "idle"
  /\ svcOp = "detectSpoof"
  /\ svcContacted
  /\ svcFailed
  /\ ~svcResult.positive

\* the stored flag is the outcome of the request it came from: false for a
\* failed or timed out request
StoredFlagIsOutcome ==
  /\ (storedProbe.any /\ storedProbe.outcome # "running") => ~serverAvailable
  /\ (storedProbe.any /\ storedProbe.outcome = "running") => serverAvailable
  /\ \A c \in ProbeCallers :
       /\ probeCalls[c].pc = "await" => probeCalls[c].issuedAt <= clock
       /\ (probeCalls[c].pc = "idle" /\ probeRet[c].cached) => storedProbe.any

\* C15: isServerAvailable called without forceCheck less than 10 s after
\* the health request whose result is stored returns the stored flag and
\* issues no request; with forceCheck, or from 10 s on, it issues a health
\* request, whose result is stored and returned; a failed or timed out
\* request stores false.
C15_ProbeCache ==
  /\ []StoredFlagIsOutcome
  /\ [][\A c \in ProbeCallers : \A f \in BOOLEAN :
          isServerAvailable(c, f) =>
            IF ~f /\ storedProbe.any /\ clock - storedProbe.issuedAt < 10000
            THEN /\ healthRequests' = healthRequests
                 /\ probeRet'[c] = [value |-> serverAvailable, cached |-> TRUE]
            ELSE /\ healthRequests' = healthRequests + 1
                 /\ probeCalls'[c].pc = "await"]_vars

C15_Witness ==
  /\ healthRequests > 0
  /\ storedProbe.any
  /\ storedProbe.outcome = "timeout"
  /\ clock - storedProbe.issuedAt >= 10000
  /\ \E c \in ProbeCallers : probeRet[c].cached /\ probeCalls[c].pc = "idle"

\* recognition polling is armed: the only continuous scanning the App has
\* (visionPipeline.startContinuousAnalysis is called from nowhere)
Scanning == armedTimers # {}

\* C17: the transcript 'Begin detections' starts continuous detection
\* scanning and the transcript 'Stop detections' stops it
C17_VoiceDetections ==
  [][/\ VoiceInput(T_BeginDetections) => Scanning'
     /\ VoiceInput(T_StopDetections) => ~Scanning']_vars

\* frames and messages the App has in flight at a cloud provider:
\* geminiService.analyzeRegistrationImage and emotionService.analyzeEmotion
\* post every frame to Gemini, generateResponseOnline posts to Claude
CloudRequests ==
  [gemini |-> Cardinality(regReqs)
                + Cardinality({q \in pollReqs : q.stage = "emotion"}),
   claude |-> IF chatPc = "online" THEN 1 ELSE 0]

\* C18: all processing is local: no camera frame and no message is ever
\* in flight to a cloud provider (Gemini or Claude)
C18_AllLocal == CloudRequests.gemini = 0 /\ CloudRequests.claude = 0

\* the entries of a log list, whatever their order
Entries(q) == {q[i] : i \in 1..Len(q)}

\* C19: the App's in-memory log list never exceeds 100 entries and, once
\* loaded at start-up and appended to, holds the same entries as the
\* persisted list (the 100 most recent)
C19_LogsMatchStore ==
  logMounted => (Len(logs) <= 100 /\ Entries(logs) = Entries(storedLogs))

\* C20: captureAndRegister stores a user only when the detection reports a
\* face, not several faces, and a passed quality check or a description;
\* after a failed capture or a rejected detection the stored users are
\* unchanged and regStep is CAPTURE (failed capture) or ERROR (rejection)
C20_RegisterOnlyAccepted ==
  [][/\ \A r \in regReqs : \A d \in Detections :
          RegisterDone(r, d) =>
            IF d.faceDetected /\ ~d.multipleFaces
                 /\ (d.qualityCheckPassed \/ d.description)
            THEN /\ Len(storedUsers') = Len(storedUsers) + 1
                 /\ storedUsers'[Len(storedUsers')].name = r.name
            ELSE /\ storedUsers' = storedUsers
                 /\ mounted => regStep' = "ERROR"
     /\ captureAndRegister =>
          /\ storedUsers' = storedUsers
          /\ regReqs' = regReqs => regStep' = "CAPTURE"
     /\ Len(storedUsers') > Len(storedUsers) =>
          \E r \in regReqs : \E d \in Detections :
            /\ RegisterDone(r, d)
            /\ d.faceDetected /\ ~d.multipleFaces
            /\ (d.qualityCheckPassed \/ d.description)]_vars

\* a detection was rejected: the step is ERROR and nobody is stored
C20_Witness == mounted /\ regStep = "ERROR" /\ regReqs = {} /\ storedUsers = <<>>

\* C21: no two stored users have names that are equal ignoring letter
\* case and surrounding whitespace
C21_UniqueNames ==
  \A i \in 1..Len(storedUsers) : \A j \in 1..Len(storedUsers) :
    ToLowerCase(Trim(storedUsers[i].name)) = ToLowerCase(Trim(storedUsers[j].name))
      => i = j

\* C22: a recognition result that arrives after the App has left
\* recognition mode sets neither the matched user, the recognition status,
\* the greeting overlay nor the user's statistics
C22_LateResultDiscarded ==
  [][(/\ appState # RECOGNITION
      /\ \E r \in pollReqs : \E ans \in RecognitionAnswers : PollRecognizeDone(r, ans))
       => /\ matchedUser' = matchedUser
          /\ recognitionStatus' = recognitionStatus
          /\ showGreetingOverlay' = showGreetingOverlay
          /\ storedUsers' = storedUsers]_vars

\* C23: every media stream the Camera obtained is stopped once the effect
\* run that requested it is cleaned up, also when it arrives after the
\* cleanup; at most one stream is live at any time
C23_StreamsStopped ==
  /\ \A c \in camLive : camCycles[c].isMounted
  /\ \A c \in 1..Len(camCycles) : camCycles[c].isMounted => c = CurrentCycle /\ camMounted
  /\ Cardinality(camLive) <= 1

\* a stream arrived after its run was cleaned up while a later run holds
\* a live stream
C23_Witness ==
  /\ \E c \in 1..Len(camCycles) : camCycles[c].pc = "stoppedLate"
  /\ camLive # {}

\* C24: a start while the pipeline runs is a no-op, so at most one
\* analysis interval exists at any time; after stopAnalysis a new start
\* arms exactly one interval again
C24_OneInterval ==
  /\ Cardinality(pipeTimers) <= 1
  /\ isRunning <=> pipeTimers # {}
  /\ \A t \in pipeTimers : t.id = analysisInterval /\ t.run = pipeRuns
  /\ pipeTimers = {} => analysisInterval = 0

\* the second run, started after a stop, has its interval armed and a
\* further start was ignored
C24_Witness ==
  /\ pipeRuns = 2 /\ 1 \in pipeStopped
  /\ pipeIgnored
  /\ Cardinality(pipeTimers) = 1

\* C25: after stopAnalysis returned, onResult of the stopped run is never
\* invoked again, even if a frame analysis was in flight at the stop
C25_NoLateResult == \A d \in pipeDelivered : ~d.late

\* C26: when analyzeFrame is asked for a scene description and a custom
\* question and both sub-requests succeed, the returned description holds
\* both the scene description and the answer, whichever completed first
C26_BothInDescription ==
  (afPc = "done" /\ afSubs.scene = "ok" /\ afSubs.question = "ok")
    => (InSeq("scene", lastResult) /\ InSeq("answer", lastResult))

\* C27: a listening session starts only from the idle state, at most one
\* session is active at a time, and after every session (command, timeout,
\* recognition error, failing handler or speech output) the state
\* eventually returns to idle
C27_SessionReturnsIdle ==
  /\ [](vaListening <= 1 /\ (vaListening = 1 => vaState = "listening"))
  /\ [][vaListening' > vaListening => (vaState = "idle" /\ ~isListeningRef)]_vars
  /\ (vaState # "idle" ~> vaState = "idle")

\* a session whose handler request and speech output both failed is over
C27_Witness == vaState = "idle" /\ vaFlags.handler /\ vaFlags.speech

\* C28: once the user has toggled wake-word listening off, no speech
\* recognition session is active or is started afterwards, also when a
\* wake-word interaction was in progress at the toggle
C28_OffMeansOff == wwToggledOff => (wakeRecs = {} /\ ~confirmActive)

\* C29: offline mode is on, in the panel or in storage, only while the
\* model status is ready, and after a failed load it is off
C29_OfflineNeedsModel ==
  /\ (panelOfflineMode \/ offlineMode) => modelStatus = "ready"
  /\ lastLoad = "failed" => (~panelOfflineMode /\ ~offlineMode)

\* C30: after a save of the settings panel while user U is matched,
\* getPreferences(U.id) holds the saved value, and after a save with
\* emotionTracking off no emotion analysis is started for U
C30_SavedPrefsApply ==
  /\ savedFor # 0 => getPreferences(prefs, savedFor) = savedValue
  /\ ~emotionAfterOptOut

====
